---- MODULE Spec2Model ----
(***************************************************************************)
(* Resilience and caching layer of SportsBuddy.                            *)
(*                                                                         *)
(*   McpClient          server/src/services/mcpClient.ts                   *)
(*                      (retry, per-attempt timeout, circuit breaker)      *)
(*   MLBAPIClient       mcp-server/mlb-api.js   (makeRequest, URL cache)   *)
(*                      unnamed/part_001        (fetch, no cache)          *)
(*   GiantsIntelligentMCPServer  unnamed/part_008                          *)
(*                      (getGiantsGamePreview, analysisCache)              *)
(*                                                                         *)
(* Each component has its own specification; the variables of the other    *)
(* components keep their initial values in it.                             *)
(*                                                                         *)
(* Time is a discrete clock `now` (Date.now()).  A timer that is due fires *)
(* before the clock advances.  The McpClient configuration is the          *)
(* constructor's `config` argument; the model is checked for small values  *)
(* of it, in abstract clock units.  The MLB client's times are the         *)
(* source's milliseconds and its clock advances in steps of TimeStep.      *)
(***************************************************************************)
EXTENDS Integers, Sequences, FiniteSets, TLC

\* ---------------------------------------------------------------------------
\* McpClient configuration (constructor argument, mcpClient.ts:22-30)
\* ---------------------------------------------------------------------------
maxRetries == 3
retryDelay == 1
timeout == 1
circuitBreakerThreshold == 2
circuitBreakerResetTime == 2

\* Bounds of the model
MaxTime == 9
MaxFailures == 4

\* Concurrent callers of McpClient.getGiantsGamePreview
Calls == {"c1", "c2"}

\* callMcpServer settles MinOpTime..MaxOpTime after it was invoked: within the
\* same clock unit at the earliest, after the withTimeout deadline at the latest.
MinOpTime == 0
MaxOpTime == timeout + 1

VARIABLES
    now,             \* Date.now()
    circuitBreaker,  \* McpClient.circuitBreaker
    pc,              \* per call: "idle", "attempt" (awaiting withTimeout), "delay"
    attempt,         \* executeWithRetry loop variable
    lastError,       \* executeWithRetry lastError
    opDue,           \* time at which the current callMcpServer promise settles
    timerDue,        \* time at which the withTimeout timer fires
    wakeAt,          \* time at which the backoff delay resolves
    orphans,         \* per call: due times of callMcpServer operations abandoned by a timeout
    result,          \* how the last getGiantsGamePreview call of the caller settled
    message,         \* message of the error it was rejected with
    netAttempts,     \* callMcpServer invocations made by the current / last call
    errs,            \* history: errors of the attempts of the current / last call
    waited,          \* history: backoff delays awaited by the current / last call
    failedAt,        \* history: time at which the last attempt of the call failed
    consecFailed,    \* history: calls that exhausted their retries since the last success
    openedAt,        \* history: time at which the breaker last entered open
    lastProbe        \* history: what the last call completed in half-open did to the breaker

mcpVars == <<circuitBreaker, pc, attempt, lastError, opDue, timerDue, wakeAt,
             orphans, result, message, netAttempts, errs, waited, failedAt, consecFailed,
             openedAt, lastProbe>>

\* ---------------------------------------------------------------------------
\* MLBAPIClient (mlb-api.js) and the cache-less MLBAPIClient.fetch (part_001)
\* ---------------------------------------------------------------------------
cacheTimeout == 300000
apiTimeout == 10000
fetchTimeout == 5000

\* Bounds of the model
TimeStep == 150000
MaxTicks == 3

\* Concurrent makeRequest calls, the fully-qualified URLs they ask for and the
\* callers of fetch
Reqs == {"r1", "r2"}
Urls == {"/schedule?teamId=137", "/teams/137/stats"}
Fetchers == {"f1"}

\* The JSON body the upstream serves at time t
Body(t) == t

NoEntry == [data |-> -1, timestamp |-> -1]

\* How a call settles: it returns a JSON body, returns null, or throws an error
Returned(b) == [kind |-> "data", body |-> b, error |-> "none"]
ReturnedNull == [kind |-> "null", body |-> -1, error |-> "none"]
Thrown(e) == [kind |-> "throw", body |-> -1, error |-> e]
NotSettled(k) == [kind |-> k, body |-> -1, error |-> "none"]

VARIABLES
    cache,       \* MLBAPIClient.cache: URL -> {data, timestamp} (NoEntry: no entry)
    rpc,         \* per makeRequest call: "idle" or "fetching" (awaiting fetch / json)
    rkey,        \* cacheKey of the call
    rstart,      \* time at which the abort timer of the call was armed
    rresult,     \* how the last call settled: returned value or thrown error
    rnet,        \* history: network calls issued by the current / last call
    rwhy,        \* history: why the call went to the network ("absent", "expired")
    rupstream,   \* history: what the upstream did to the last call
    fpc,         \* per fetch call (part_001): "idle" or "fetching"
    fstart,      \* time at which its abort timer was armed
    fresult,     \* how the last fetch call settled
    fupstream    \* history: what the upstream did to the last fetch call

mlbVars == <<cache, rpc, rkey, rstart, rresult, rnet, rwhy, rupstream,
             fpc, fstart, fresult, fupstream>>

\* ---------------------------------------------------------------------------
\* GiantsIntelligentMCPServer (the orchestrator of getGiantsGamePreview)
\* ---------------------------------------------------------------------------
previewCacheTimeout == 1800000

\* Bounds of the model
PreviewTimeStep == 900000
PreviewMaxTicks == 3

\* Concurrent getGiantsGamePreview requests, the dates and the serialised
\* option objects they are made with
Previews == {"p1", "p2"}
Dates == {"2024-07-04"}
OptionSets == {"{}", "{\"includeWeather\":true}"}

\* `game-preview-${gameDate}-${JSON.stringify(options)}`
previewCacheKey(date, options) == <<"game-preview", date, options>>

PreviewKeys == {previewCacheKey(d, o) : d \in Dates, o \in OptionSets}

\* What the schedule request of fetchComprehensiveGameData can resolve to
ScheduleShapes == {"null", "no-dates", "empty-dates", "empty-games", "no-games-field",
                   "game"}

\* The fetches joined by Promise.all
MandatoryFetches == {"getTeamStats", "getRecentGames", "getHeadToHeadRecord",
                     "getTeamRoster"}

\* The fetches whose rejection fetchComprehensiveGameData catches and logs
OptionalFetches == {"getGameWeather", "getInjuryReport"}

\* How the getGameWeather call of the orchestrator can settle: with weather
\* data, with null because the feed has neither weather nor venue, with null
\* because getGameWeather caught the error of its own feed request, or
\* rejected (a client that does not catch)
WeatherOutcomes == {"data", "none", "caught", "rejects"}

\* How the two getInjuryReport calls can settle
InjuryOutcomes == {"both", "first-rejects", "second-rejects"}

\* The bundle fetchComprehensiveGameData builds, reduced to gameFound and the
\* fields written from the optional fetches ("absent": the key was never set)
NoBundle == [gameFound |-> FALSE, weather |-> "absent", giantsInjuries |-> "absent",
             opponentInjuries |-> "absent"]

\* The stages of a request in the order the code places them
StageRank ==
    [s \in {"schedule", "mandatory", "gameFeed", "pitcherStats", "weather", "injuries",
            "format", "llm", "parse", "store"} |->
        CASE s = "schedule" -> 1 [] s = "mandatory" -> 2 [] s = "gameFeed" -> 3
          [] s = "pitcherStats" -> 4 [] s = "weather" -> 5 [] s = "injuries" -> 6
          [] s = "format" -> 7 [] s = "llm" -> 8 [] s = "parse" -> 9 [] s = "store" -> 10]

NoAnalysis == [data |-> [success |-> FALSE, error |-> "none", date |-> "none",
                         generated |-> -1, fromCache |-> FALSE],
               timestamp |-> -1]

VARIABLES
    enableCaching,  \* CONFIG.enableCaching
    analysisCache,  \* GiantsIntelligentMCPServer.analysisCache (NoAnalysis: no entry)
    opc,            \* per request: "idle" or the await it is suspended at
    odate,          \* gameDate of the request
    ooptions,       \* JSON.stringify(options) of the request
    oresult,        \* what the last request of the caller returned
    otrace,         \* history: the stages the current / last request has started
    oschedule,      \* history: the schedule response the request received
    oraw,           \* per request: `data` / `rawData`, the bundle being fetched
    ofailed,        \* per request: the bundle fields whose optional fetch failed
    oabort,         \* history: the fetch or stage whose error ended the request
    othrown         \* whether the last request ended with an exception at its caller

orchVars == <<enableCaching, analysisCache, opc, odate, ooptions, oresult, otrace,
              oschedule, oraw, ofailed, oabort, othrown>>

\* ---------------------------------------------------------------------------
\* ResponseParser (parseGameAnalysis and its parse cache)
\* ---------------------------------------------------------------------------
cacheKeyLength == 100

\* A completion text is a sequence of characters
Whitespace == {" ", "\n"}
Filler == [i \in 1..cacheKeyLength |-> "x"]

\* The texts parseGameAnalysis is called with: the empty text, short texts
\* that differ in a space or in their letters, and texts longer than the
\* prefix the cache key is taken from
Texts == {<<>>, <<"a", "b">>, <<"a", " ", "b">>, <<"b", "a">>,
          Filler \o <<"a">>, Filler \o <<" ", "b">>}

NoText == <<"-">>

\* The parse of a text, reduced to the fields copied from it
NoParse == [rawAnalysis |-> NoText, analysisLength |-> -1]

VARIABLES
    parseCache,     \* ResponseParser.parseCache (NoParse: no entry under the key)
    pinput,         \* llmResponse.content of the last parseGameAnalysis call
    preturned       \* what that call returned

parserVars == <<parseCache, pinput, preturned>>

\* ---------------------------------------------------------------------------
\* LLMAnalyzer (makeRequest and its usage counters)
\* ---------------------------------------------------------------------------
\* Bounds of the model
MaxRequests == 2

\* Concurrent makeRequest calls
LlmCalls == {"m1", "m2"}

\* response.usage of the provider, in tokens
InputTokens == {1000}
OutputTokens == {0, 1000}

\* averageCostPerRequest is a quotient; Zero is the number 0
Quotient(n, d) == [num |-> n, den |-> d]
Zero == Quotient(0, 1)

NoStats == [requestCount |-> -1, totalCost |-> -1, averageCostPerRequest |-> Zero]

VARIABLES
    provider,       \* LLMAnalyzer.provider
    requestCount,   \* LLMAnalyzer.requestCount
    totalCost,      \* LLMAnalyzer.totalCost, in millionths of a dollar
    mpc,            \* per call: "idle" or "awaiting" the provider
    lstats,         \* what the last getUsageStats call returned
    llast,          \* history: the last operation on the analyzer
    lstarted,       \* history: makeRequest calls started since construction / reset
    lbilled,        \* history: cost of the provider responses received since then
    lreturned       \* history: cost of the calls that returned a result since then

llmVars == <<provider, requestCount, totalCost, mpc, lstats, llast, lstarted, lbilled,
             lreturned>>

\* ---------------------------------------------------------------------------
\* The functions of DataFormatter, LLMAnalyzer and ResponseParser that keep no
\* state: the last call made and what it returned
\* ---------------------------------------------------------------------------
VARIABLES
    fcall,          \* the function called and its arguments
    freturn         \* what it returned, or that it threw

pureVars == <<fcall, freturn>>

\* The components without timers of their own
libVars == <<parserVars, llmVars, pureVars>>

vars == <<now, mcpVars, mlbVars, orchVars, libVars>>

\* ---------------------------------------------------------------------------
\* Circuit breaker
\* ---------------------------------------------------------------------------

\* isCircuitOpen with `>=` in place of `>` in the reset-window test
isCircuitOpen_EarlyReset(cb, t) ==
    IF cb.state = "open"
    THEN IF t - cb.lastFailureTime >= circuitBreakerResetTime
         THEN [ret |-> FALSE, cb |-> [cb EXCEPT !.state = "half-open"]]
         ELSE [ret |-> TRUE, cb |-> cb]
    ELSE [ret |-> FALSE, cb |-> cb]

\* isCircuitOpen() at time t: the value returned (ret) and the breaker record
\* it leaves behind (cb)
isCircuitOpen(cb, t) ==
    IF cb.state = "open"
    THEN IF t - cb.lastFailureTime > circuitBreakerResetTime
         THEN [ret |-> FALSE, cb |-> [cb EXCEPT !.state = "half-open"]]
         ELSE [ret |-> TRUE, cb |-> cb]
    ELSE [ret |-> FALSE, cb |-> cb]

\* recordFailure with `>` in place of `>=`
recordFailure_StrictThreshold(cb, t) ==
    LET f == cb.failures + 1 IN
    [failures |-> f,
     lastFailureTime |-> t,
     state |-> IF f > circuitBreakerThreshold THEN "open" ELSE cb.state]

recordFailure(cb, t) ==
    LET f == cb.failures + 1 IN
    [failures |-> f,
     lastFailureTime |-> t,
     state |-> IF f >= circuitBreakerThreshold THEN "open" ELSE cb.state]

\* resetCircuitBreaker without the assignment to state
resetCircuitBreaker_KeepsState(cb) ==
    [cb EXCEPT !.failures = 0]

\* resetCircuitBreaker without the assignment to failures
resetCircuitBreaker_KeepsFailures(cb) ==
    [cb EXCEPT !.state = "closed"]

resetCircuitBreaker(cb) ==
    [cb EXCEPT !.failures = 0, !.state = "closed"]

\* willRetry with `<=` in place of `<`
willRetry_OneMore(k) == k <= maxRetries

\* executeWithRetry: `attempt < this.config.maxRetries`
willRetry(k) == k < maxRetries

\* executeWithRetry: `this.config.retryDelay * attempt`
backoffDelay(k) == retryDelay * k

\* ---------------------------------------------------------------------------
\* Initial state: new McpClient(config), no call in progress
\* ---------------------------------------------------------------------------
McpInit ==
    /\ now = 0
    /\ circuitBreaker = [failures |-> 0, lastFailureTime |-> 0, state |-> "closed"]
    /\ pc = [c \in Calls |-> "idle"]
    /\ attempt = [c \in Calls |-> 0]
    /\ lastError = [c \in Calls |-> "none"]
    /\ opDue = [c \in Calls |-> 0]
    /\ timerDue = [c \in Calls |-> 0]
    /\ wakeAt = [c \in Calls |-> 0]
    /\ orphans = [c \in Calls |-> {}]
    /\ result = [c \in Calls |-> "none"]
    /\ message = [c \in Calls |-> "none"]
    /\ netAttempts = [c \in Calls |-> 0]
    /\ errs = [c \in Calls |-> <<>>]
    /\ waited = [c \in Calls |-> <<>>]
    /\ failedAt = [c \in Calls |-> 0]
    /\ consecFailed = 0
    /\ openedAt = 0
    /\ lastProbe = "none"

\* History of the breaker: the time it entered open
OpenedAtAfter(cbOld, cbNew, t) ==
    IF cbOld.state # "open" /\ cbNew.state = "open" THEN t ELSE openedAt

\* ---------------------------------------------------------------------------
\* McpClient.getGiantsGamePreview
\* ---------------------------------------------------------------------------

\* History: what a call completing now does to a half-open breaker
ProbeAfter(cbOld, cbNew) ==
    IF cbOld.state = "half-open"
    THEN (IF cbNew.state = "closed" THEN "closed"
          ELSE IF cbNew.state = "open" THEN "reopened" ELSE "undecided")
    ELSE lastProbe

\* The call is rejected by the breaker: isCircuitOpen() is true, the
\* McpCommunicationError thrown inside the try block is caught by the catch
\* block of the same method, which records a failure and rethrows.
CallRejected(c) ==
    /\ UNCHANGED <<mlbVars, orchVars, libVars>>
    /\ pc[c] = "idle"
    /\ isCircuitOpen(circuitBreaker, now).ret
    /\ circuitBreaker.failures < MaxFailures
    /\ LET cb1 == isCircuitOpen(circuitBreaker, now).cb
           cb2 == recordFailure(cb1, now)
       IN /\ circuitBreaker' = cb2
          /\ openedAt' = OpenedAtAfter(circuitBreaker, cb2, now)
    /\ result' = [result EXCEPT ![c] = "McpCommunicationError"]
    /\ message' = [message EXCEPT ![c] = "MCP server circuit breaker is open"]
    /\ netAttempts' = [netAttempts EXCEPT ![c] = 0]
    /\ errs' = [errs EXCEPT ![c] = <<>>]
    /\ waited' = [waited EXCEPT ![c] = <<>>]
    /\ attempt' = [attempt EXCEPT ![c] = 0]
    /\ lastError' = [lastError EXCEPT ![c] = "none"]
    /\ failedAt' = [failedAt EXCEPT ![c] = 0]
    /\ UNCHANGED <<now, pc, opDue, timerDue, wakeAt, orphans, consecFailed, lastProbe>>

\* The call passes the breaker and executeWithRetry starts attempt 1:
\* operation() is invoked and withTimeout arms its timer.
CallAdmitted(c) ==
    /\ UNCHANGED <<mlbVars, orchVars, libVars>>
    /\ pc[c] = "idle"
    /\ ~isCircuitOpen(circuitBreaker, now).ret
    /\ circuitBreaker' = isCircuitOpen(circuitBreaker, now).cb
    /\ \E d \in MinOpTime..MaxOpTime :
          opDue' = [opDue EXCEPT ![c] = now + d]
    /\ timerDue' = [timerDue EXCEPT ![c] = now + timeout]
    /\ pc' = [pc EXCEPT ![c] = "attempt"]
    /\ attempt' = [attempt EXCEPT ![c] = 1]
    /\ lastError' = [lastError EXCEPT ![c] = "none"]
    /\ netAttempts' = [netAttempts EXCEPT ![c] = 1]
    /\ result' = [result EXCEPT ![c] = "pending"]
    /\ message' = [message EXCEPT ![c] = "none"]
    /\ errs' = [errs EXCEPT ![c] = <<>>]
    /\ waited' = [waited EXCEPT ![c] = <<>>]
    /\ failedAt' = [failedAt EXCEPT ![c] = 0]
    /\ UNCHANGED <<now, wakeAt, orphans, consecFailed, openedAt, lastProbe>>

\* callMcpServer resolves before the deadline: executeWithRetry returns its
\* value, getGiantsGamePreview resets the breaker and returns the result.
AttemptSucceeds(c) ==
    /\ UNCHANGED <<mlbVars, orchVars, libVars>>
    /\ pc[c] = "attempt"
    /\ opDue[c] = now
    /\ opDue[c] <= timerDue[c]
    /\ LET cb2 == resetCircuitBreaker(circuitBreaker)
       IN /\ circuitBreaker' = cb2
          /\ lastProbe' = ProbeAfter(circuitBreaker, cb2)
    /\ consecFailed' = 0
    /\ result' = [result EXCEPT ![c] = "resolved"]
    /\ pc' = [pc EXCEPT ![c] = "idle"]
    /\ opDue' = [opDue EXCEPT ![c] = 0]
    /\ timerDue' = [timerDue EXCEPT ![c] = 0]
    /\ UNCHANGED <<now, attempt, lastError, wakeAt, orphans, message, netAttempts,
                   errs, waited, failedAt, openedAt>>

\* The catch block of executeWithRetry after a failed attempt with error e,
\* followed, when it was the last attempt, by `throw lastError` and the catch
\* block of getGiantsGamePreview.
AfterFailedAttempt(c, e) ==
    /\ lastError' = [lastError EXCEPT ![c] = e]
    /\ errs' = [errs EXCEPT ![c] = Append(@, e)]
    /\ failedAt' = [failedAt EXCEPT ![c] = now]
    /\ opDue' = [opDue EXCEPT ![c] = 0]
    /\ timerDue' = [timerDue EXCEPT ![c] = 0]
    /\ IF willRetry(attempt[c])
       THEN /\ pc' = [pc EXCEPT ![c] = "delay"]
            /\ wakeAt' = [wakeAt EXCEPT ![c] = now + backoffDelay(attempt[c])]
            /\ waited' = [waited EXCEPT ![c] = Append(@, backoffDelay(attempt[c]))]
            /\ UNCHANGED <<circuitBreaker, result, message, consecFailed, openedAt,
                           lastProbe>>
       ELSE /\ pc' = [pc EXCEPT ![c] = "idle"]
            /\ LET cb2 == recordFailure(circuitBreaker, now)
               IN /\ circuitBreaker' = cb2
                  /\ openedAt' = OpenedAtAfter(circuitBreaker, cb2, now)
                  /\ lastProbe' = ProbeAfter(circuitBreaker, cb2)
            /\ consecFailed' = consecFailed + 1
            /\ result' = [result EXCEPT ![c] = "McpCommunicationError"]
            /\ message' = [message EXCEPT ![c] = lastError'[c]]
            /\ UNCHANGED <<wakeAt, waited>>
    /\ UNCHANGED <<now, attempt, netAttempts>>

\* callMcpServer rejects before the deadline
AttemptFails(c) ==
    /\ UNCHANGED <<mlbVars, orchVars, libVars>>
    /\ pc[c] = "attempt"
    /\ opDue[c] = now
    /\ opDue[c] <= timerDue[c]
    /\ AfterFailedAttempt(c, "MCP server communication failed")
    /\ UNCHANGED orphans

\* The withTimeout timer fires first: the attempt is rejected with a
\* TimeoutError; the callMcpServer operation itself keeps running.
AttemptTimesOut(c) ==
    /\ UNCHANGED <<mlbVars, orchVars, libVars>>
    /\ pc[c] = "attempt"
    /\ timerDue[c] = now
    /\ opDue[c] > now
    /\ orphans' = [orphans EXCEPT ![c] = @ \cup {opDue[c]}]
    /\ AfterFailedAttempt(c, "TimeoutError")

\* The backoff delay resolves and the loop starts the next attempt
NextAttempt(c) ==
    /\ UNCHANGED <<mlbVars, orchVars, libVars>>
    /\ pc[c] = "delay"
    /\ wakeAt[c] = now
    /\ \E d \in MinOpTime..MaxOpTime :
          opDue' = [opDue EXCEPT ![c] = now + d]
    /\ timerDue' = [timerDue EXCEPT ![c] = now + timeout]
    /\ attempt' = [attempt EXCEPT ![c] = @ + 1]
    /\ netAttempts' = [netAttempts EXCEPT ![c] = @ + 1]
    /\ pc' = [pc EXCEPT ![c] = "attempt"]
    /\ wakeAt' = [wakeAt EXCEPT ![c] = 0]
    /\ UNCHANGED <<now, circuitBreaker, lastError, orphans, result, message, errs,
                   waited, failedAt, consecFailed, openedAt, lastProbe>>

\* An operation abandoned by a timeout settles; its promise was already
\* rejected by the timer, so nothing else changes.
OrphanSettles(c) ==
    /\ UNCHANGED <<mlbVars, orchVars, libVars>>
    /\ now \in orphans[c]
    /\ orphans' = [orphans EXCEPT ![c] = @ \ {now}]
    /\ UNCHANGED <<now, circuitBreaker, pc, attempt, lastError, opDue, timerDue, wakeAt,
                   result, message, netAttempts, errs, waited, failedAt, consecFailed,
                   openedAt, lastProbe>>

\* The clock advances when nothing is due at the current instant
McpTick ==
    /\ UNCHANGED <<mlbVars, orchVars, libVars>>
    /\ now < MaxTime
    /\ \A c \in Calls :
          /\ pc[c] = "attempt" => (opDue[c] > now /\ timerDue[c] > now)
          /\ pc[c] = "delay" => wakeAt[c] > now
          /\ now \notin orphans[c]
    /\ now' = now + 1
    /\ UNCHANGED <<circuitBreaker, pc, attempt, lastError, opDue, timerDue, wakeAt,
                   orphans, result, message, netAttempts, errs, waited, failedAt,
                   consecFailed, openedAt, lastProbe>>

McpNext ==
    \/ \E c \in Calls : CallRejected(c)
    \/ \E c \in Calls : CallAdmitted(c)
    \/ \E c \in Calls : AttemptSucceeds(c)
    \/ \E c \in Calls : AttemptFails(c)
    \/ \E c \in Calls : AttemptTimesOut(c)
    \/ \E c \in Calls : NextAttempt(c)
    \/ \E c \in Calls : OrphanSettles(c)
    \/ McpTick

\* ---------------------------------------------------------------------------
\* MLBAPIClient.makeRequest (mlb-api.js)
\* ---------------------------------------------------------------------------

\* isFresh with `<=` in place of `<`
isFresh_Inclusive(entry, t) ==
    entry # NoEntry /\ t - entry.timestamp <= cacheTimeout

\* The cache check: `this.cache.has(cacheKey)` and
\* `Date.now() - cached.timestamp < this.cacheTimeout`
isFresh(entry, t) ==
    entry # NoEntry /\ t - entry.timestamp < cacheTimeout

\* The catch block of makeRequest: an abort is rethrown as a timeout error,
\* any other error is rethrown as it is
makeRequestCatch(err) ==
    IF err = "AbortError"
    THEN Thrown("MLB API request timeout")
    ELSE Thrown(err)

\* fetchCatch that rethrows the error
fetchCatch_Rethrows(err) == Thrown(err)

\* The catch block of fetch (part_001): logs and returns null
fetchCatch(err) == ReturnedNull

\* fetch (part_001) on `!response.ok`: logs and returns null
fetchNotOk == ReturnedNull

MlbInit ==
    /\ cache = [u \in Urls |-> NoEntry]
    /\ rpc = [r \in Reqs |-> "idle"]
    /\ rkey = [r \in Reqs |-> "none"]
    /\ rstart = [r \in Reqs |-> 0]
    /\ rresult = [r \in Reqs |-> NotSettled("none")]
    /\ rnet = [r \in Reqs |-> 0]
    /\ rwhy = [r \in Reqs |-> "none"]
    /\ rupstream = [r \in Reqs |-> "none"]
    /\ fpc = [f \in Fetchers |-> "idle"]
    /\ fstart = [f \in Fetchers |-> 0]
    /\ fresult = [f \in Fetchers |-> NotSettled("none")]
    /\ fupstream = [f \in Fetchers |-> "none"]

\* makeRequest finds a live entry and returns its data
MakeRequestHit(r, u) ==
    /\ UNCHANGED <<mcpVars, orchVars, libVars>>
    /\ rpc[r] = "idle"
    /\ isFresh(cache[u], now)
    /\ rkey' = [rkey EXCEPT ![r] = u]
    /\ rresult' = [rresult EXCEPT ![r] = Returned(cache[u].data)]
    /\ rnet' = [rnet EXCEPT ![r] = 0]
    /\ rwhy' = [rwhy EXCEPT ![r] = "none"]
    /\ rupstream' = [rupstream EXCEPT ![r] = "none"]
    /\ UNCHANGED <<now, cache, rpc, rstart, fpc, fstart, fresult, fupstream>>

\* makeRequest finds no live entry, arms the abort timer and awaits fetch
MakeRequestMiss(r, u) ==
    /\ UNCHANGED <<mcpVars, orchVars, libVars>>
    /\ rpc[r] = "idle"
    /\ ~isFresh(cache[u], now)
    /\ rpc' = [rpc EXCEPT ![r] = "fetching"]
    /\ rkey' = [rkey EXCEPT ![r] = u]
    /\ rstart' = [rstart EXCEPT ![r] = now]
    /\ rresult' = [rresult EXCEPT ![r] = NotSettled("pending")]
    /\ rnet' = [rnet EXCEPT ![r] = 1]
    /\ rwhy' = [rwhy EXCEPT ![r] = IF cache[u] = NoEntry THEN "absent" ELSE "expired"]
    /\ rupstream' = [rupstream EXCEPT ![r] = "none"]
    /\ UNCHANGED <<now, cache, fpc, fstart, fresult, fupstream>>

\* The response arrives with an OK status before the abort timer fires: the
\* body is cached under the URL with the current time and returned
MakeRequestOk(r) ==
    /\ UNCHANGED <<mcpVars, orchVars, libVars>>
    /\ rpc[r] = "fetching"
    /\ now - rstart[r] < apiTimeout
    /\ cache' = [cache EXCEPT ![rkey[r]] = [data |-> Body(now), timestamp |-> now]]
    /\ rresult' = [rresult EXCEPT ![r] = Returned(Body(now))]
    /\ rupstream' = [rupstream EXCEPT ![r] = "ok"]
    /\ rpc' = [rpc EXCEPT ![r] = "idle"]
    /\ rstart' = [rstart EXCEPT ![r] = 0]
    /\ UNCHANGED <<now, rkey, rnet, rwhy, fpc, fstart, fresult, fupstream>>

\* The call ends in the catch block with error err
cacheAfterFailure_Evicts(entries, key) == [entries EXCEPT ![key] = NoEntry]

\* The catch block of makeRequest clears the timer and rethrows: the cache map
\* is neither written nor pruned
cacheAfterFailure(entries, key) == entries

MakeRequestThrows(r, up, err) ==
    /\ rresult' = [rresult EXCEPT ![r] = makeRequestCatch(err)]
    /\ rupstream' = [rupstream EXCEPT ![r] = up]
    /\ rpc' = [rpc EXCEPT ![r] = "idle"]
    /\ rstart' = [rstart EXCEPT ![r] = 0]
    /\ cache' = cacheAfterFailure(cache, rkey[r])
    /\ UNCHANGED <<now, rkey, rnet, rwhy, fpc, fstart, fresult, fupstream>>

\* The response arrives with a non-OK status: `throw new Error('MLB API error ...')`
MakeRequestNotOk(r) ==
    /\ UNCHANGED <<mcpVars, orchVars, libVars>>
    /\ rpc[r] = "fetching"
    /\ now - rstart[r] < apiTimeout
    /\ MakeRequestThrows(r, "not-ok", "MLB API error")

\* fetch rejects with a network error
MakeRequestNetworkError(r) ==
    /\ UNCHANGED <<mcpVars, orchVars, libVars>>
    /\ rpc[r] = "fetching"
    /\ now - rstart[r] < apiTimeout
    /\ MakeRequestThrows(r, "network-error", "FetchError")

\* The abort timer fires: fetch rejects with an AbortError
MakeRequestAborted(r) ==
    /\ UNCHANGED <<mcpVars, orchVars, libVars>>
    /\ rpc[r] = "fetching"
    /\ now - rstart[r] >= apiTimeout
    /\ MakeRequestThrows(r, "timeout", "AbortError")

\* ---------------------------------------------------------------------------
\* MLBAPIClient.fetch (part_001)
\* ---------------------------------------------------------------------------
FetchStart(f) ==
    /\ UNCHANGED <<mcpVars, orchVars, libVars>>
    /\ fpc[f] = "idle"
    /\ fpc' = [fpc EXCEPT ![f] = "fetching"]
    /\ fstart' = [fstart EXCEPT ![f] = now]
    /\ fresult' = [fresult EXCEPT ![f] = NotSettled("pending")]
    /\ fupstream' = [fupstream EXCEPT ![f] = "none"]
    /\ UNCHANGED <<now, cache, rpc, rkey, rstart, rresult, rnet, rwhy, rupstream>>

FetchEnds(f, up, res) ==
    /\ fresult' = [fresult EXCEPT ![f] = res]
    /\ fupstream' = [fupstream EXCEPT ![f] = up]
    /\ fpc' = [fpc EXCEPT ![f] = "idle"]
    /\ fstart' = [fstart EXCEPT ![f] = 0]
    /\ UNCHANGED <<now, cache, rpc, rkey, rstart, rresult, rnet, rwhy, rupstream>>

FetchOk(f) ==
    /\ UNCHANGED <<mcpVars, orchVars, libVars>>
    /\ fpc[f] = "fetching"
    /\ now - fstart[f] < fetchTimeout
    /\ FetchEnds(f, "ok", Returned(Body(now)))

FetchNotOk(f) ==
    /\ UNCHANGED <<mcpVars, orchVars, libVars>>
    /\ fpc[f] = "fetching"
    /\ now - fstart[f] < fetchTimeout
    /\ FetchEnds(f, "not-ok", fetchNotOk)

FetchNetworkError(f) ==
    /\ UNCHANGED <<mcpVars, orchVars, libVars>>
    /\ fpc[f] = "fetching"
    /\ now - fstart[f] < fetchTimeout
    /\ FetchEnds(f, "network-error", fetchCatch("FetchError"))

FetchAborted(f) ==
    /\ UNCHANGED <<mcpVars, orchVars, libVars>>
    /\ fpc[f] = "fetching"
    /\ now - fstart[f] >= fetchTimeout
    /\ FetchEnds(f, "timeout", fetchCatch("AbortError"))

\* The clock advances by TimeStep unless an abort timer is due
MlbTick ==
    /\ UNCHANGED <<mcpVars, orchVars, libVars>>
    /\ now < MaxTicks * TimeStep
    /\ \A r \in Reqs : rpc[r] = "fetching" => now - rstart[r] < apiTimeout
    /\ \A f \in Fetchers : fpc[f] = "fetching" => now - fstart[f] < fetchTimeout
    /\ now' = now + TimeStep
    /\ UNCHANGED <<mlbVars, orchVars, libVars>>

MlbNext ==
    \/ \E r \in Reqs, u \in Urls : MakeRequestHit(r, u)
    \/ \E r \in Reqs, u \in Urls : MakeRequestMiss(r, u)
    \/ \E r \in Reqs : MakeRequestOk(r)
    \/ \E r \in Reqs : MakeRequestNotOk(r)
    \/ \E r \in Reqs : MakeRequestNetworkError(r)
    \/ \E r \in Reqs : MakeRequestAborted(r)
    \/ \E f \in Fetchers : FetchStart(f)
    \/ \E f \in Fetchers : FetchOk(f)
    \/ \E f \in Fetchers : FetchNotOk(f)
    \/ \E f \in Fetchers : FetchNetworkError(f)
    \/ \E f \in Fetchers : FetchAborted(f)
    \/ MlbTick

\* ---------------------------------------------------------------------------
\* GiantsIntelligentMCPServer.getGiantsGamePreview
\* ---------------------------------------------------------------------------

\* The results getGiantsGamePreview returns
PreviewSuccess(date, t) ==
    [success |-> TRUE, error |-> "none", date |-> date, generated |-> t,
     fromCache |-> FALSE]

PreviewFailure(date, msg) ==
    [success |-> FALSE, error |-> msg, date |-> date, generated |-> -1,
     fromCache |-> FALSE]

NoResult == [success |-> FALSE, error |-> "pending", date |-> "none", generated |-> -1,
             fromCache |-> FALSE]

\* The cache check of getGiantsGamePreview
isLiveAnalysis(entry, t) ==
    enableCaching /\ entry # NoAnalysis /\ t - entry.timestamp < previewCacheTimeout

\* cacheHitResult without the fromCache tag
cacheHitResult_Untagged(cached) == cached.data

\* `{ ...cached.data, fromCache: true }`
cacheHitResult(cached) == [cached.data EXCEPT !.fromCache = TRUE]

\* scheduleLookup without the `schedule.dates.length === 0` test
scheduleLookup_NoLengthTest(shape) ==
    IF shape \in {"null", "no-dates"} THEN "not-found"
    ELSE IF shape \in {"no-games-field", "empty-dates"} THEN "TypeError"
    ELSE IF shape = "empty-games" THEN "not-found"
    ELSE "found"

\* fetchComprehensiveGameData on the schedule response: gameFound false,
\* gameFound true, or a TypeError when dates[0] has no games array
scheduleLookup(shape) ==
    IF shape \in {"null", "no-dates", "empty-dates"} THEN "not-found"
    ELSE IF shape = "no-games-field" THEN "TypeError"
    ELSE IF shape = "empty-games" THEN "not-found"
    ELSE "found"

\* abortsRequest with every rejection propagating to the caller
abortsRequest_Everything(fetch) == TRUE

\* Whether a rejection of the fetch leaves fetchComprehensiveGameData through
\* its outer catch (rethrow) or is caught and logged next to the call
abortsRequest(fetch) == fetch \notin OptionalFetches

\* data.weather after `data.weather = await getGameWeather(...)` in its try
weatherField(outcome) ==
    CASE outcome = "data" -> "data"
      [] outcome \in {"none", "caught"} -> "null"
      [] OTHER -> "absent"

\* the stages after the LLM request without the await on its result
stagesAfterCompletion_ParseAlways(settled, caching) ==
    IF caching THEN <<"parse", "store">> ELSE <<"parse">>

\* The stages getGiantsGamePreview runs once its LLM request has settled
stagesAfterCompletion(settled, caching) ==
    CASE settled = "rejected" -> <<>>
      [] settled = "no-content" -> <<"parse">>
      [] OTHER -> IF caching THEN <<"parse", "store">> ELSE <<"parse">>

OrchInit ==
    /\ enableCaching \in BOOLEAN
    /\ analysisCache = [k \in PreviewKeys |-> NoAnalysis]
    /\ opc = [q \in Previews |-> "idle"]
    /\ odate = [q \in Previews |-> "none"]
    /\ ooptions = [q \in Previews |-> "none"]
    /\ oresult = [q \in Previews |-> NoResult]
    /\ otrace = [q \in Previews |-> <<>>]
    /\ oschedule = [q \in Previews |-> "none"]
    /\ oraw = [q \in Previews |-> NoBundle]
    /\ ofailed = [q \in Previews |-> {}]
    /\ oabort = [q \in Previews |-> "none"]
    /\ othrown = [q \in Previews |-> FALSE]

\* The request finds a live entry and returns it tagged fromCache
PreviewHit(q, date, options) ==
    /\ UNCHANGED <<mcpVars, mlbVars, libVars>>
    /\ opc[q] = "idle"
    /\ isLiveAnalysis(analysisCache[previewCacheKey(date, options)], now)
    /\ oresult' = [oresult EXCEPT ![q] =
                      cacheHitResult(analysisCache[previewCacheKey(date, options)])]
    /\ odate' = [odate EXCEPT ![q] = date]
    /\ ooptions' = [ooptions EXCEPT ![q] = options]
    /\ otrace' = [otrace EXCEPT ![q] = <<>>]
    /\ oschedule' = [oschedule EXCEPT ![q] = "none"]
    /\ oabort' = [oabort EXCEPT ![q] = "none"]
    /\ othrown' = [othrown EXCEPT ![q] = FALSE]
    /\ UNCHANGED <<now, enableCaching, analysisCache, opc, oraw, ofailed>>

\* The request finds no live entry and awaits the schedule of the date
PreviewMiss(q, date, options) ==
    /\ UNCHANGED <<mcpVars, mlbVars, libVars>>
    /\ opc[q] = "idle"
    /\ ~isLiveAnalysis(analysisCache[previewCacheKey(date, options)], now)
    /\ opc' = [opc EXCEPT ![q] = "schedule"]
    /\ odate' = [odate EXCEPT ![q] = date]
    /\ ooptions' = [ooptions EXCEPT ![q] = options]
    /\ oresult' = [oresult EXCEPT ![q] = NoResult]
    /\ otrace' = [otrace EXCEPT ![q] = <<"schedule">>]
    /\ oschedule' = [oschedule EXCEPT ![q] = "none"]
    /\ oabort' = [oabort EXCEPT ![q] = "none"]
    /\ othrown' = [othrown EXCEPT ![q] = FALSE]
    /\ UNCHANGED <<now, enableCaching, analysisCache, oraw, ofailed>>

\* The request moves on to its next await
PreviewAdvance(q, stage) ==
    /\ opc' = [opc EXCEPT ![q] = stage]
    /\ otrace' = [otrace EXCEPT ![q] = Append(@, stage)]
    /\ UNCHANGED <<now, enableCaching, analysisCache, odate, ooptions, oresult, oabort,
                   othrown>>

\* cacheOnReturn with every returned result stored under its key
cacheOnReturn_Always(entries, key, res, t) ==
    [entries EXCEPT ![key] = [data |-> res, timestamp |-> t]]

\* analysisCache after the early return for no game and after the return of
\* the catch block: neither reaches `this.analysisCache.set`
cacheOnReturn(entries, key, res, t) == entries

\* The request ends, with a result or with an exception, without touching the
\* cache; its bundle goes out of scope
PreviewEnds(q, res, thrown) ==
    /\ opc' = [opc EXCEPT ![q] = "idle"]
    /\ oresult' = [oresult EXCEPT ![q] = res]
    /\ othrown' = [othrown EXCEPT ![q] = thrown]
    /\ oraw' = [oraw EXCEPT ![q] = NoBundle]
    /\ ofailed' = [ofailed EXCEPT ![q] = {}]
    /\ analysisCache' = cacheOnReturn(analysisCache,
                                      previewCacheKey(odate[q], ooptions[q]), res, now)
    /\ UNCHANGED <<now, enableCaching, odate, ooptions>>

\* The request returns res
PreviewReturns(q, res) == PreviewEnds(q, res, FALSE)

\* previewCatch without the catch block: the error reaches the caller
previewCatch_Rethrows(date, msg) == [result |-> NoResult, thrown |-> TRUE]

\* `catch (error) { return { success: false, error: error.message, date } }`
previewCatch(date, msg) == [result |-> PreviewFailure(date, msg), thrown |-> FALSE]

\* An error thrown by a stage inside the try block: fetchComprehensiveGameData
\* rethrows it and the catch block of getGiantsGamePreview returns the failure
\* envelope
PreviewThrows(q, stage, msg) ==
    /\ PreviewEnds(q, previewCatch(odate[q], msg).result,
                   previewCatch(odate[q], msg).thrown)
    /\ oabort' = [oabort EXCEPT ![q] = stage]

\* The schedule request resolves
ScheduleArrives(q, shape) ==
    /\ UNCHANGED <<mcpVars, mlbVars, libVars>>
    /\ opc[q] = "schedule"
    /\ oschedule' = [oschedule EXCEPT ![q] = shape]
    /\ CASE scheduleLookup(shape) = "not-found" ->
               /\ PreviewReturns(q, PreviewFailure(odate[q],
                                  "No Giants game found for the specified date"))
               /\ UNCHANGED <<otrace, oabort>>
         [] scheduleLookup(shape) = "TypeError" ->
               /\ PreviewThrows(q, "schedule", "TypeError")
               /\ UNCHANGED otrace
         [] OTHER ->
               /\ PreviewAdvance(q, "mandatory")
               /\ oraw' = [oraw EXCEPT ![q].gameFound = TRUE]
               /\ UNCHANGED ofailed

\* The schedule request rejects (makeRequest throws)
ScheduleFails(q) ==
    /\ UNCHANGED <<mcpVars, mlbVars, libVars>>
    /\ opc[q] = "schedule"
    /\ oschedule' = [oschedule EXCEPT ![q] = "throws"]
    /\ PreviewThrows(q, "getTeamSchedule", "getTeamSchedule failed")
    /\ UNCHANGED otrace

\* Promise.all of the seven mandatory fetches resolves
MandatoryArrives(q) ==
    /\ UNCHANGED <<mcpVars, mlbVars, libVars>>
    /\ opc[q] = "mandatory"
    /\ PreviewAdvance(q, "gameFeed")
    /\ UNCHANGED <<oschedule, oraw, ofailed>>

\* One of the mandatory fetches rejects and Promise.all rejects with it
MandatoryFails(q, f) ==
    /\ UNCHANGED <<mcpVars, mlbVars, libVars>>
    /\ opc[q] = "mandatory"
    /\ f \in MandatoryFetches
    /\ abortsRequest(f)
    /\ PreviewThrows(q, f, f)
    /\ UNCHANGED <<oschedule, otrace>>

\* getGameFeed resolves; with probable pitchers their stats are fetched next
GameFeedArrives(q, pitchers) ==
    /\ UNCHANGED <<mcpVars, mlbVars, libVars>>
    /\ opc[q] = "gameFeed"
    /\ PreviewAdvance(q, IF pitchers THEN "pitcherStats" ELSE "weather")
    /\ UNCHANGED <<oschedule, oraw, ofailed>>

GameFeedFails(q) ==
    /\ UNCHANGED <<mcpVars, mlbVars, libVars>>
    /\ opc[q] = "gameFeed"
    /\ PreviewThrows(q, "getGameFeed", "getGameFeed failed")
    /\ UNCHANGED <<oschedule, otrace>>

PitcherStatsArrive(q) ==
    /\ UNCHANGED <<mcpVars, mlbVars, libVars>>
    /\ opc[q] = "pitcherStats"
    /\ PreviewAdvance(q, "weather")
    /\ UNCHANGED <<oschedule, oraw, ofailed>>

PitcherStatsFail(q) ==
    /\ UNCHANGED <<mcpVars, mlbVars, libVars>>
    /\ opc[q] = "pitcherStats"
    /\ PreviewThrows(q, "getPlayerStats", "getPlayerStats failed")
    /\ UNCHANGED <<oschedule, otrace>>

\* getGameWeather settles: data.weather is assigned what it resolved to, or
\* left unset when it rejected
WeatherSettles(q, outcome) ==
    /\ UNCHANGED <<mcpVars, mlbVars, libVars>>
    /\ opc[q] = "weather"
    /\ IF outcome = "rejects" /\ abortsRequest("getGameWeather")
       THEN /\ PreviewThrows(q, "getGameWeather", "getGameWeather failed")
            /\ UNCHANGED otrace
       ELSE /\ PreviewAdvance(q, "injuries")
            /\ oraw' = [oraw EXCEPT ![q].weather = weatherField(outcome)]
            /\ ofailed' = [ofailed EXCEPT ![q] =
                   IF outcome \in {"caught", "rejects"}
                   THEN @ \cup {"weather"} ELSE @]
    /\ UNCHANGED oschedule

\* The bundle after the two getInjuryReport awaits of one try block
injuryFields(raw, outcome) ==
    [raw EXCEPT !.giantsInjuries = IF outcome = "first-rejects" THEN "absent" ELSE "data",
                !.opponentInjuries = IF outcome = "both" THEN "data" ELSE "absent"]

\* The field whose getInjuryReport call rejected
failedInjuryFields(outcome) ==
    CASE outcome = "first-rejects" -> {"giantsInjuries"}
      [] outcome = "second-rejects" -> {"opponentInjuries"}
      [] OTHER -> {}

\* The injury reports settle and fetchComprehensiveGameData returns the
\* bundle; formatGameData runs on it and the LLM request is sent
InjuriesSettle(q, outcome, formatted) ==
    /\ UNCHANGED <<mcpVars, mlbVars, libVars>>
    /\ opc[q] = "injuries"
    /\ IF outcome # "both" /\ abortsRequest("getInjuryReport")
       THEN /\ PreviewThrows(q, "getInjuryReport", "getInjuryReport failed")
            /\ UNCHANGED otrace
       ELSE IF formatted
       THEN /\ opc' = [opc EXCEPT ![q] = "llm"]
            /\ otrace' = [otrace EXCEPT ![q] = @ \o <<"format", "llm">>]
            /\ oraw' = [oraw EXCEPT ![q] = injuryFields(@, outcome)]
            /\ ofailed' = [ofailed EXCEPT ![q] = @ \cup failedInjuryFields(outcome)]
            /\ UNCHANGED <<now, enableCaching, analysisCache, odate, ooptions, oresult,
                           oabort, othrown>>
       ELSE /\ otrace' = [otrace EXCEPT ![q] = Append(@, "format")]
            /\ PreviewThrows(q, "format", "TypeError")
    /\ UNCHANGED oschedule

\* The LLM request settles.  With a completion whose content is text it is
\* parsed, the result is stored when caching is enabled, and returned; a
\* completion without content makes the parser throw
CompletionSettles(q, settled) ==
    /\ opc[q] = "llm"
    /\ otrace' = [otrace EXCEPT ![q] = @ \o stagesAfterCompletion(settled, enableCaching)]
    /\ IF settled = "text"
       THEN /\ opc' = [opc EXCEPT ![q] = "idle"]
            /\ oresult' = [oresult EXCEPT ![q] = PreviewSuccess(odate[q], now)]
            /\ oraw' = [oraw EXCEPT ![q] = NoBundle]
            /\ ofailed' = [ofailed EXCEPT ![q] = {}]
            /\ analysisCache' =
                   IF enableCaching
                   THEN [analysisCache EXCEPT
                            ![previewCacheKey(odate[q], ooptions[q])] =
                                [data |-> PreviewSuccess(odate[q], now),
                                 timestamp |-> now]]
                   ELSE analysisCache
            /\ UNCHANGED <<now, enableCaching, odate, ooptions, oabort, othrown>>
       ELSE PreviewThrows(q, IF settled = "rejected" THEN "llm" ELSE "parse",
                          IF settled = "rejected" THEN "LLM request failed"
                          ELSE "TypeError")
    /\ UNCHANGED oschedule

\* The completion arrives
CompletionArrives(q, content) ==
    /\ UNCHANGED <<mcpVars, mlbVars, libVars>>
    /\ content \in {"text", "no-content"}
    /\ CompletionSettles(q, content)

\* The LLM request rejects
CompletionFails(q) ==
    /\ UNCHANGED <<mcpVars, mlbVars, libVars>>
    /\ CompletionSettles(q, "rejected")

PreviewTick ==
    /\ UNCHANGED <<mcpVars, mlbVars, libVars>>
    /\ now < PreviewMaxTicks * PreviewTimeStep
    /\ now' = now + PreviewTimeStep
    /\ UNCHANGED orchVars

\* getGiantsGamePreview is called
PreviewInvoked(q) ==
    \/ \E d \in Dates, o \in OptionSets : PreviewHit(q, d, o)
    \/ \E d \in Dates, o \in OptionSets : PreviewMiss(q, d, o)

\* The promise the request is awaiting settles
PreviewSettles(q) ==
    \/ \E shape \in ScheduleShapes : ScheduleArrives(q, shape)
    \/ ScheduleFails(q)
    \/ MandatoryArrives(q)
    \/ \E f \in MandatoryFetches : MandatoryFails(q, f)
    \/ \E pitchers \in BOOLEAN : GameFeedArrives(q, pitchers)
    \/ GameFeedFails(q)
    \/ PitcherStatsArrive(q)
    \/ PitcherStatsFail(q)
    \/ \E outcome \in WeatherOutcomes : WeatherSettles(q, outcome)
    \/ \E outcome \in InjuryOutcomes, formatted \in BOOLEAN :
           InjuriesSettle(q, outcome, formatted)
    \/ \E content \in {"text", "no-content"} : CompletionArrives(q, content)
    \/ CompletionFails(q)

OrchNext ==
    \/ \E q \in Previews, d \in Dates, o \in OptionSets : PreviewHit(q, d, o)
    \/ \E q \in Previews, d \in Dates, o \in OptionSets : PreviewMiss(q, d, o)
    \/ \E q \in Previews, shape \in ScheduleShapes : ScheduleArrives(q, shape)
    \/ \E q \in Previews : ScheduleFails(q)
    \/ \E q \in Previews : MandatoryArrives(q)
    \/ \E q \in Previews, f \in MandatoryFetches : MandatoryFails(q, f)
    \/ \E q \in Previews, pitchers \in BOOLEAN : GameFeedArrives(q, pitchers)
    \/ \E q \in Previews : GameFeedFails(q)
    \/ \E q \in Previews : PitcherStatsArrive(q)
    \/ \E q \in Previews : PitcherStatsFail(q)
    \/ \E q \in Previews, outcome \in WeatherOutcomes : WeatherSettles(q, outcome)
    \/ \E q \in Previews, outcome \in InjuryOutcomes, formatted \in BOOLEAN :
           InjuriesSettle(q, outcome, formatted)
    \/ \E q \in Previews, content \in {"text", "no-content"} : CompletionArrives(q, content)
    \/ \E q \in Previews : CompletionFails(q)
    \/ PreviewTick

\* ---------------------------------------------------------------------------
\* ResponseParser.parseGameAnalysis
\* ---------------------------------------------------------------------------

\* `text.replace(/\s+/g, '')`
NotWhitespace(c) == c \notin Whitespace
stripWhitespace(text) == SelectSeq(text, NotWhitespace)

\* `text.substring(0, n)`
substring(text, n) == SubSeq(text, 1, IF Len(text) < n THEN Len(text) ELSE n)

\* `content.substring(0, 100).replace(/\s+/g, '')`
generateCacheKey(content) == stripWhitespace(substring(content, cacheKeyLength))

ParseKeys == {generateCacheKey(t) : t \in Texts}

\* The object parseGameAnalysis builds from the text
parsedAnalysis(content) == [rawAnalysis |-> content, analysisLength |-> Len(content)]

ParserInit ==
    /\ parseCache = [k \in ParseKeys |-> NoParse]
    /\ pinput = NoText
    /\ preturned = NoParse

\* parseGameAnalysis finds an entry under the key of the text and returns it
ParseCached(t) ==
    /\ UNCHANGED <<now, mcpVars, mlbVars, orchVars, llmVars, pureVars>>
    /\ parseCache[generateCacheKey(t)] # NoParse
    /\ pinput' = t
    /\ preturned' = parseCache[generateCacheKey(t)]
    /\ UNCHANGED parseCache

\* parseGameAnalysis finds no entry, parses the text and stores the parse
ParseFresh(t) ==
    /\ UNCHANGED <<now, mcpVars, mlbVars, orchVars, llmVars, pureVars>>
    /\ parseCache[generateCacheKey(t)] = NoParse
    /\ pinput' = t
    /\ preturned' = parsedAnalysis(t)
    /\ parseCache' = [parseCache EXCEPT ![generateCacheKey(t)] = parsedAnalysis(t)]

\* clearCache
ClearCache ==
    /\ UNCHANGED <<now, mcpVars, mlbVars, orchVars, llmVars, pureVars>>
    /\ parseCache' = [k \in ParseKeys |-> NoParse]
    /\ UNCHANGED <<pinput, preturned>>

ParserNext ==
    \/ \E t \in Texts : ParseCached(t)
    \/ \E t \in Texts : ParseFresh(t)
    \/ ClearCache

\* ---------------------------------------------------------------------------
\* LLMAnalyzer.makeRequest, getUsageStats, resetUsageStats
\* ---------------------------------------------------------------------------

\* `(inputTokens * 0.003 + outputTokens * 0.015) / 1000` for anthropic and
\* `(inputTokens * 0.01 + outputTokens * 0.03) / 1000` for openai, in
\* millionths of a dollar
estimatedCost(prov, inputTokens, outputTokens) ==
    IF prov = "anthropic" THEN inputTokens * 3 + outputTokens * 15
    ELSE inputTokens * 10 + outputTokens * 30

\* averageCost without the test of requestCount
averageCost_NoGuard(total, count) == Quotient(total, count)

\* `this.requestCount > 0 ? this.totalCost / this.requestCount : 0`
averageCost(total, count) == IF count > 0 THEN Quotient(total, count) ELSE Zero

AnalyzerInit ==
    /\ provider \in {"anthropic", "openai"}
    /\ requestCount = 0
    /\ totalCost = 0
    /\ mpc = [c \in LlmCalls |-> "idle"]
    /\ lstats = NoStats
    /\ llast = "constructor"
    /\ lstarted = 0
    /\ lbilled = 0
    /\ lreturned = 0

\* makeRequest is called: the request is counted and sent to the provider
LlmRequestStarts(c) ==
    /\ UNCHANGED <<now, mcpVars, mlbVars, orchVars, parserVars, pureVars>>
    /\ mpc[c] = "idle"
    /\ requestCount < MaxRequests
    /\ requestCount' = requestCount + 1
    /\ lstarted' = lstarted + 1
    /\ mpc' = [mpc EXCEPT ![c] = "awaiting"]
    /\ llast' = "makeRequest"
    /\ UNCHANGED <<provider, totalCost, lstats, lbilled, lreturned>>

\* The provider responds with a usage block: the cost is added, then the text
\* is read from the response; without a content block (content: [] or
\* choices: []) reading it throws and makeRequest rethrows
LlmResponseArrives(c, inputTokens, outputTokens, hasContent) ==
    /\ UNCHANGED <<now, mcpVars, mlbVars, orchVars, parserVars, pureVars>>
    /\ mpc[c] = "awaiting"
    /\ totalCost' = totalCost + estimatedCost(provider, inputTokens, outputTokens)
    /\ lbilled' = lbilled + estimatedCost(provider, inputTokens, outputTokens)
    /\ lreturned' = IF hasContent
                    THEN lreturned + estimatedCost(provider, inputTokens, outputTokens)
                    ELSE lreturned
    /\ mpc' = [mpc EXCEPT ![c] = "idle"]
    /\ llast' = IF hasContent THEN "returned" ELSE "threw"
    /\ UNCHANGED <<provider, requestCount, lstats, lstarted>>

\* The provider request rejects and makeRequest rethrows
LlmRequestFails(c) ==
    /\ UNCHANGED <<now, mcpVars, mlbVars, orchVars, parserVars, pureVars>>
    /\ mpc[c] = "awaiting"
    /\ mpc' = [mpc EXCEPT ![c] = "idle"]
    /\ llast' = "threw"
    /\ UNCHANGED <<provider, requestCount, totalCost, lstats, lstarted, lbilled,
                   lreturned>>

GetUsageStats ==
    /\ UNCHANGED <<now, mcpVars, mlbVars, orchVars, parserVars, pureVars>>
    /\ lstats' = [requestCount |-> requestCount, totalCost |-> totalCost,
                  averageCostPerRequest |-> averageCost(totalCost, requestCount)]
    /\ llast' = "getUsageStats"
    /\ UNCHANGED <<provider, requestCount, totalCost, mpc, lstarted, lbilled, lreturned>>

ResetUsageStats ==
    /\ UNCHANGED <<now, mcpVars, mlbVars, orchVars, parserVars, pureVars>>
    /\ requestCount' = 0
    /\ totalCost' = 0
    /\ lstarted' = 0
    /\ lbilled' = 0
    /\ lreturned' = 0
    /\ llast' = "resetUsageStats"
    /\ UNCHANGED <<provider, mpc, lstats>>

AnalyzerNext ==
    \/ \E c \in LlmCalls : LlmRequestStarts(c)
    \/ \E c \in LlmCalls, i \in InputTokens, o \in OutputTokens, hasContent \in BOOLEAN :
           LlmResponseArrives(c, i, o, hasContent)
    \/ \E c \in LlmCalls : LlmRequestFails(c)
    \/ GetUsageStats
    \/ ResetUsageStats

\* ---------------------------------------------------------------------------
\* The functions without state
\* ---------------------------------------------------------------------------
NoCall == [op |-> "none"]

PureInit ==
    /\ fcall = NoCall
    /\ freturn = NoCall

\* ---------------------------------------------------------------------------
\* DataFormatter
\* ---------------------------------------------------------------------------

\* What a function call ends with
Gives(v) == [kind |-> "returned", value |-> v]
Throws(e) == [kind |-> "threw", value |-> e]

\* The raw team statistics of the MLB API, as far as extractKeyTeamStats reads
\* them: teamStats, teamStats.stats, stats[0].splits and splits[0].stat, each
\* of which can be missing
SeasonStat == [wins |-> 50, losses |-> 40]
SplitOf(hasStat) == [hasStat |-> hasStat, stat |-> SeasonStat]
EntryOf(hasSplits, splits) == [hasSplits |-> hasSplits, splits |-> splits]
StatsOf(hasStats, stats) == [present |-> TRUE, hasStats |-> hasStats, stats |-> stats]

TsNull == [present |-> FALSE, hasStats |-> FALSE, stats |-> <<>>]
TsNoStats == StatsOf(FALSE, <<>>)
TsEmptyStats == StatsOf(TRUE, <<>>)
TsNoSplits == StatsOf(TRUE, <<EntryOf(FALSE, <<>>)>>)
TsEmptySplits == StatsOf(TRUE, <<EntryOf(TRUE, <<>>)>>)
TsNoStat == StatsOf(TRUE, <<EntryOf(TRUE, <<SplitOf(FALSE)>>)>>)
TsOk == StatsOf(TRUE, <<EntryOf(TRUE, <<SplitOf(TRUE)>>)>>)
TsTwoSplits == StatsOf(TRUE, <<EntryOf(TRUE, <<SplitOf(TRUE), SplitOf(TRUE)>>)>>)

TeamStatsInputs == {TsNull, TsNoStats, TsEmptyStats, TsNoSplits, TsEmptySplits,
                    TsNoStat, TsOk, TsTwoSplits}

\* `{ available: false }` and an object with available: true
Unavailable == [available |-> FALSE, wins |-> -1, losses |-> -1]
KeyStats(stat) == [available |-> TRUE, wins |-> stat.wins, losses |-> stat.losses]

\* extractKeyTeamStats: the guard on teamStats and teamStats.stats, then
\* `teamStats.stats[0].splits[0].stat` and the reads of its properties
extractKeyTeamStats(teamStats) ==
    IF ~teamStats.present \/ ~teamStats.hasStats \/ Len(teamStats.stats) = 0
    THEN Gives(Unavailable)
    ELSE IF ~teamStats.stats[1].hasSplits THEN Throws("TypeError")
    ELSE IF Len(teamStats.stats[1].splits) = 0 THEN Throws("TypeError")
    ELSE IF ~teamStats.stats[1].splits[1].hasStat THEN Throws("TypeError")
    ELSE Gives(KeyStats(teamStats.stats[1].splits[1].stat))

\* Bounds of the model: the values calculateAdvantage is called with
\* The numbers compared: small counts from 0 on, and larger ones that lie
\* within a few percent of each other
MaxValue == 10
LargeValue == 100
Values == (0..MaxValue) \cup {LargeValue + d : d \in 0..MaxValue}

\* `Math.abs(value1 - value2)`
abs(x) == IF x < 0 THEN -x ELSE x

\* `(diff / avg) * 100` with avg = (value1 + value2) / 2; 0 / 0 is NaN
NaN == [num |-> 0, den |-> 0]
percentDiff(value1, value2) ==
    IF value1 + value2 = 0
    THEN NaN
    ELSE [num |-> abs(value1 - value2) * 200, den |-> value1 + value2]

\* `percentDiff < n`, false for NaN
lessThan(q, n) == q # NaN /\ q.num < n * q.den

\* calculateAdvantage on two numbers
calculateAdvantage(value1, value2) ==
    IF lessThan(percentDiff(value1, value2), 5) THEN "Even"
    ELSE IF value1 > value2 THEN "Giants" ELSE "Opponent"

\* extractKeyTeamStats(teamStats) is called
ExtractKeyTeamStats(ts) ==
    /\ UNCHANGED <<now, mcpVars, mlbVars, orchVars, parserVars, llmVars>>
    /\ fcall' = [op |-> "extractKeyTeamStats", teamStats |-> ts]
    /\ freturn' = extractKeyTeamStats(ts)

\* calculateAdvantage is called on a pair and on the swapped pair
CalculateAdvantage(a, b) ==
    /\ UNCHANGED <<now, mcpVars, mlbVars, orchVars, parserVars, llmVars>>
    /\ fcall' = [op |-> "calculateAdvantage", value1 |-> a, value2 |-> b]
    /\ freturn' = [kind |-> "returned", value |-> calculateAdvantage(a, b),
                   swapped |-> calculateAdvantage(b, a)]

\* The raw bundle formatGameData is given for a found game, as far as the
\* presence of its upstream data goes
TeamStatsOfBundle == {TsNull, TsEmptySplits, TsOk}
RecentGamesOfBundle == {"missing", "empty", "games"}
HeadToHeadOfBundle == {"missing", "no-dates", "dates"}

\* probablePitchers (missing, or an object with or without home and away) and
\* the season statistics fetched for the pitchers that are named
NoPitchers == [present |-> FALSE, home |-> FALSE, away |-> FALSE]
PitchersOfBundle ==
    {NoPitchers} \cup [present : {TRUE}, home : BOOLEAN, away : BOOLEAN]

\* A bundle with all of its upstream data
CompleteBundle ==
    [isHomeGame |-> TRUE, giantsStats |-> TsOk, opponentStats |-> TsOk,
     giantsRecentGames |-> "games", opponentRecentGames |-> "games",
     probablePitchers |-> [present |-> TRUE, home |-> TRUE, away |-> TRUE],
     homePitcherStats |-> TRUE, awayPitcherStats |-> TRUE, headToHead |-> "dates",
     weather |-> "data", giantsInjuries |-> "injuries", opponentInjuries |-> "injuries"]

\* The bundles formatGameData is called with: the complete one with the data
\* of one of its blocks missing in every way
RawBundles ==
    {[CompleteBundle EXCEPT !.giantsStats = g, !.opponentStats = o] :
         g \in TeamStatsOfBundle, o \in {TsNull, TsOk}}
    \cup {[CompleteBundle EXCEPT !.giantsRecentGames = g, !.opponentRecentGames = o] :
              g \in RecentGamesOfBundle, o \in {"missing", "games"}}
    \cup {[CompleteBundle EXCEPT !.isHomeGame = h, !.probablePitchers = p,
                                 !.homePitcherStats = hs, !.awayPitcherStats = as] :
              h \in BOOLEAN, p \in PitchersOfBundle, hs \in BOOLEAN, as \in BOOLEAN}
    \cup {[CompleteBundle EXCEPT !.headToHead = h] : h \in HeadToHeadOfBundle}

\* weather of the bundle: unset or null, or the weather object.  An injury
\* report of the bundle: unset, the report getInjuryReport makes
\* (`injuries: []`), or a report that lists injuries
WeatherOfBundle == {"missing", "data"}
InjuriesOfBundle == {"missing", "empty", "injuries"}

\* The bundles that differ from the complete one in their optional data
OptionalBundles ==
    {[CompleteBundle EXCEPT !.weather = w, !.headToHead = h] :
         w \in WeatherOfBundle, h \in {"missing", "dates"}}
    \cup {[CompleteBundle EXCEPT !.giantsInjuries = g, !.opponentInjuries = o] :
              g \in InjuriesOfBundle, o \in InjuriesOfBundle}

\* options.includeWeather and options.includeInjuries: unset, true or false
Flags == {"unset", "true", "false"}
FormatOptions == [includeWeather : Flags, includeInjuries : Flags]
NoOptions == [includeWeather |-> "unset", includeInjuries |-> "unset"]

\* The calls of formatGameData: (rawData, options)
FormatCalls == (RawBundles \X {NoOptions}) \cup (OptionalBundles \X FormatOptions)

\* A block of the payload: `{available: false}`, an object with
\* available: true, an object without an available key, or no block at all
Marker(isAvailable) == IF isAvailable THEN "available" ELSE "unavailable"

\* compareTeamStats on the two extracted blocks
compareTeamStats(giants, opponent) ==
    Marker(giants.value.available /\ opponent.value.available)

\* formatTeamStats; an exception of extractKeyTeamStats leaves through it
formatTeamStats(giantsStats, opponentStats) ==
    IF extractKeyTeamStats(giantsStats).kind = "threw"
           \/ extractKeyTeamStats(opponentStats).kind = "threw"
    THEN Throws("TypeError")
    ELSE Gives([giants |-> Marker(extractKeyTeamStats(giantsStats).value.available),
                opponent |-> Marker(extractKeyTeamStats(opponentStats).value.available),
                comparison |-> compareTeamStats(extractKeyTeamStats(giantsStats),
                                                extractKeyTeamStats(opponentStats))])

\* analyzeRecentGames: `!games || games.length === 0`
analyzeRecentGames(games) == Marker(games = "games")

formatRecentPerformance(giantsGames, opponentGames) ==
    [giants |-> analyzeRecentGames(giantsGames),
     opponent |-> analyzeRecentGames(opponentGames)]

\* formatPitcherData: `if (!pitcher) return { available: false }`
formatPitcherData(hasPitcher, hasStats) == Marker(hasPitcher)

\* comparePitchers: `if (!giantsStats || !opponentStats)`
comparePitchers(hasGiantsStats, hasOpponentStats) ==
    Marker(hasGiantsStats /\ hasOpponentStats)

\* formatPitchingMatchup
formatPitchingMatchup(probablePitchers, homePitcherStats, awayPitcherStats, isHomeGame) ==
    IF ~probablePitchers.present
    THEN [block |-> "unavailable", giants |-> "absent", opponent |-> "absent",
          comparison |-> "absent"]
    ELSE LET giantsPitcher == IF isHomeGame THEN probablePitchers.home
                              ELSE probablePitchers.away
             opponentPitcher == IF isHomeGame THEN probablePitchers.away
                                ELSE probablePitchers.home
             giantsPitcherStats == IF isHomeGame THEN homePitcherStats
                                   ELSE awayPitcherStats
             opponentPitcherStats == IF isHomeGame THEN awayPitcherStats
                                     ELSE homePitcherStats
         IN  [block |-> "available",
              giants |-> formatPitcherData(giantsPitcher, giantsPitcherStats),
              opponent |-> formatPitcherData(opponentPitcher, opponentPitcherStats),
              comparison |-> comparePitchers(giantsPitcherStats, opponentPitcherStats)]

\* The first method named formatHeadToHead of the class, which summarises the
\* games of the season series; the later method of the same name replaces it
formatHeadToHead_Summary(headToHead) == Marker(headToHead = "dates")

\* The last method named formatHeadToHead of the class, the one a call
\* reaches: `{ games: data.headToHeadGames, team1: ..., team2: ..., season }`
formatHeadToHead(data) == "unmarked"

\* formatTeamInjuries:
\* `!injuries || !injuries.injuries || injuries.injuries.length === 0`
formatTeamInjuries(injuries) == Marker(injuries = "injuries")

\* The optional block of the injuries, `included` telling whether the payload
\* has it: `options.includeInjuries !== false && (giantsInjuries ||
\* opponentInjuries)`, a report without injuries being an object
formatInjuries(rawData, options) ==
    [included |-> options.includeInjuries # "false"
                      /\ (rawData.giantsInjuries # "missing"
                              \/ rawData.opponentInjuries # "missing"),
     giants |-> formatTeamInjuries(rawData.giantsInjuries),
     opponent |-> formatTeamInjuries(rawData.opponentInjuries)]

\* The optional block of the weather:
\* `options.includeWeather !== false && weather`
formatWeather(rawData, options) ==
    IF options.includeWeather # "false" /\ rawData.weather # "missing"
    THEN "unmarked" ELSE "absent"

\* formatGameData on the parts of the bundle above
formatGameData(rawData, options) ==
    IF formatTeamStats(rawData.giantsStats, rawData.opponentStats).kind = "threw"
    THEN Throws("TypeError")
    ELSE Gives(
        [gameContext |-> "unmarked",
         teamStats |-> formatTeamStats(rawData.giantsStats, rawData.opponentStats).value,
         recentPerformance |-> formatRecentPerformance(rawData.giantsRecentGames,
                                                       rawData.opponentRecentGames),
         pitchingMatchup |->
             formatPitchingMatchup(rawData.probablePitchers,
                 rawData.probablePitchers.home /\ rawData.homePitcherStats,
                 rawData.probablePitchers.away /\ rawData.awayPitcherStats,
                 rawData.isHomeGame),
         weather |-> formatWeather(rawData, options),
         injuries |-> formatInjuries(rawData, options),
         headToHead |-> IF rawData.headToHead = "missing" THEN "absent"
                        ELSE formatHeadToHead(rawData.headToHead)])

\* formatGameData(rawData, options) is called
FormatGameData(raw, options) ==
    /\ UNCHANGED <<now, mcpVars, mlbVars, orchVars, parserVars, llmVars>>
    /\ fcall' = [op |-> "formatGameData", rawData |-> raw, options |-> options]
    /\ freturn' = formatGameData(raw, options)

\* Recent games, as far as analyzeRecentGames reads them: game.teams.home.team.id
\* and the two scores.  A list holds the final games of one team, which played
\* each of them at home or away.
giantsTeamId == 137
OpponentTeamId == 119
NoTeamId == 0
MaxScore == 1
MaxGames == 2
Scores == 0..MaxScore

GameOf(team, atHome, own, other) ==
    [home |-> IF atHome THEN team ELSE NoTeamId,
     homeScore |-> IF atHome THEN own ELSE other,
     awayScore |-> IF atHome THEN other ELSE own]

GamesOfTeam(team) ==
    {GameOf(team, h, a, b) : h \in BOOLEAN, a \in Scores, b \in Scores}

GameLists(team) ==
    UNION {[1..n -> GamesOfTeam(team)] : n \in 1..MaxGames}

\* The scores of the team and of the other team in a game
ownScore(game, team) == IF game.home = team THEN game.homeScore ELSE game.awayScore
otherScore(game, team) == IF game.home = team THEN game.awayScore ELSE game.homeScore

\* `teamId ? game.teams.home.team.id === teamId : true`
isHome(game, teamId) == IF teamId # NoTeamId THEN game.home = teamId ELSE TRUE

\* teamScore and opponentScore of the loop body
teamScore(game, teamId) ==
    IF isHome(game, teamId) THEN game.homeScore ELSE game.awayScore
opponentScore(game, teamId) ==
    IF isHome(game, teamId) THEN game.awayScore ELSE game.homeScore

\* The loop of analyzeRecentGames over recentGames and the record it reports
RECURSIVE tally(_, _, _)
tally(games, teamId, n) ==
    IF n = 0 THEN [wins |-> 0, runs |-> 0, runsAllowed |-> 0]
    ELSE LET rest == tally(games, teamId, n - 1)
             game == games[n]
         IN  [wins |-> rest.wins + (IF teamScore(game, teamId) > opponentScore(game, teamId)
                                    THEN 1 ELSE 0),
              runs |-> rest.runs + teamScore(game, teamId),
              runsAllowed |-> rest.runsAllowed + opponentScore(game, teamId)]

recentRecord(games, teamId) ==
    [available |-> TRUE,
     wins |-> tally(games, teamId, Len(games)).wins,
     losses |-> Len(games) - tally(games, teamId, Len(games)).wins,
     runsPerGame |-> Quotient(tally(games, teamId, Len(games)).runs, Len(games)),
     runsAllowedPerGame |-> Quotient(tally(games, teamId, Len(games)).runsAllowed,
                                     Len(games))]

\* formatRecentPerformance on two lists of games: the Giants' list is analysed
\* with giantsTeamId, the opponent's without a team id
recentPerformance(giantsGames, opponentGames) ==
    [giants |-> recentRecord(giantsGames, giantsTeamId),
     opponent |-> recentRecord(opponentGames, NoTeamId)]

\* formatRecentPerformance(giantsGames, opponentGames) is called
FormatRecentPerformance(giantsGames, opponentGames) ==
    /\ UNCHANGED <<now, mcpVars, mlbVars, orchVars, parserVars, llmVars>>
    /\ fcall' = [op |-> "formatRecentPerformance", giantsGames |-> giantsGames,
                 opponentGames |-> opponentGames]
    /\ freturn' = Gives(recentPerformance(giantsGames, opponentGames))

\* The pairs of lists formatRecentPerformance is called with: one side varies
\* while the other has played one game at home
RecentGamesPairs ==
    (GameLists(giantsTeamId) \X {<<GameOf(OpponentTeamId, TRUE, 1, 0)>>})
    \cup ({<<GameOf(giantsTeamId, TRUE, 1, 0)>>} \X GameLists(OpponentTeamId))

FormatterNext ==
    \/ \E ts \in TeamStatsInputs : ExtractKeyTeamStats(ts)
    \/ \E a \in Values, b \in Values : CalculateAdvantage(a, b)
    \/ \E call \in FormatCalls : FormatGameData(call[1], call[2])
    \/ \E pair \in RecentGamesPairs : FormatRecentPerformance(pair[1], pair[2])

\* ---------------------------------------------------------------------------
\* ResponseParser.extractStructuredSections and the output template of
\* LLMAnalyzer.buildGameAnalysisPrompt.  A text is a sequence of characters
\* in which a phrase a pattern names, and any other word, is one element.
\* ---------------------------------------------------------------------------

\* `## <title>` of the output template, title by title
TemplateHeadings ==
    << <<"#", "#", " ", "Game Overview">>,
       <<"#", "#", " ", "Pitching Matchup Analysis">>,
       <<"#", "#", " ", "Key Offensive Matchups">>,
       <<"#", "#", " ", "Team Momentum", " ", "& Recent Form">>,
       <<"#", "#", " ", "Strategic Factors">>,
       <<"#", "#", " ", "Key Players", " ", "to Watch">>,
       <<"#", "#", " ", "Weather", "/Venue", " ", "Impact">>,
       <<"#", "#", " ", "Prediction", " ", "& Narrative">> >>

HeadingIds == DOMAIN TemplateHeadings

\* sectionPatterns: `##\s*<title>` and what follows the title, `\s*\n`
\* ("line"), `.*?\n` ("rest") or `.*?Impact\s*\n` ("impact"); every pattern
\* ends `(.*?)(?=##|$)` under the flags i and s
sectionPatterns ==
    [gameOverview |-> [title |-> "Game Overview", tail |-> "line"],
     pitchingMatchup |-> [title |-> "Pitching Matchup Analysis", tail |-> "line"],
     offensiveMatchups |-> [title |-> "Key Offensive Matchups", tail |-> "line"],
     teamMomentum |-> [title |-> "Team Momentum", tail |-> "rest"],
     strategicFactors |-> [title |-> "Strategic Factors", tail |-> "line"],
     keyPlayers |-> [title |-> "Key Players", tail |-> "rest"],
     weatherVenue |-> [title |-> "Weather", tail |-> "impact"],
     prediction |-> [title |-> "Prediction", tail |-> "rest"]]

SectionNames == DOMAIN sectionPatterns

Least(S) == CHOOSE x \in S : \A y \in S : x <= y
Greatest(S) == CHOOSE x \in S : \A y \in S : x >= y

\* `##` at position i
hashesAt(text, i) == i + 1 <= Len(text) /\ text[i] = "#" /\ text[i + 1] = "#"

\* The position after the longest run of whitespace from position i
afterSpaces(text, i) ==
    Least({j \in i..(Len(text) + 1) : j = Len(text) + 1 \/ text[j] \notin Whitespace})

\* `\s*\n` from position i: the position after the last newline of the run of
\* whitespace, 0 when the run has none
afterLineEnd(text, i) ==
    LET newlines == {j \in i..(afterSpaces(text, i) - 1) : text[j] = "\n"}
    IN  IF newlines = {} THEN 0 ELSE Greatest(newlines) + 1

\* `.*?\n` from position i: the position after the first newline
afterFirstNewline(text, i) ==
    LET newlines == {j \in i..Len(text) : text[j] = "\n"}
    IN  IF newlines = {} THEN 0 ELSE Least(newlines) + 1

\* `.*?Impact\s*\n` from position i
afterImpact(text, i) ==
    LET ends == {j \in i..Len(text) : text[j] = "Impact" /\ afterLineEnd(text, j + 1) # 0}
    IN  IF ends = {} THEN 0 ELSE afterLineEnd(text, Least(ends) + 1)

\* The pattern up to its capture group, tried at position i: the position
\* where the capture starts, 0 when the pattern does not match there
captureStart(text, i, pattern) ==
    LET t == afterSpaces(text, i + 2)
    IN  IF ~hashesAt(text, i) \/ t > Len(text) THEN 0
        ELSE IF text[t] # pattern.title THEN 0
        ELSE CASE pattern.tail = "line" -> afterLineEnd(text, t + 1)
               [] pattern.tail = "rest" -> afterFirstNewline(text, t + 1)
               [] OTHER -> afterImpact(text, t + 1)

\* `(.*?)(?=##|$)` from position c: the captured text
captured(text, c) ==
    SubSeq(text, c,
           Least({k \in c..(Len(text) + 1) : k = Len(text) + 1 \/ hashesAt(text, k)}) - 1)

\* `analysis.match(pattern)`: the first position where the pattern matches
NoMatch == [matched |-> FALSE, group |-> <<>>]
match(analysis, pattern) ==
    LET starts == {i \in 1..Len(analysis) : captureStart(analysis, i, pattern) # 0}
    IN  IF starts = {} THEN NoMatch
        ELSE [matched |-> TRUE,
              group |-> captured(analysis, captureStart(analysis, Least(starts), pattern))]

\* `String.prototype.trim`
trim(text) ==
    LET inked == {i \in 1..Len(text) : text[i] \notin Whitespace}
    IN  IF inked = {} THEN <<>> ELSE SubSeq(text, Least(inked), Greatest(inked))

\* extractStructuredSections: the content of every section whose pattern
\* matches
extractStructuredSections(analysis) ==
    [name \in {n \in SectionNames : match(analysis, sectionPatterns[n]).matched}
        |-> trim(match(analysis, sectionPatterns[name]).group)]

\* Section texts of a response: plain text, text with blank lines, a bullet
\* list, text with a level-three heading inside or in front, blank text
SectionTexts ==
    { <<"x">>, <<"x", " ", "x">>, <<"x", "\n", "x">>, <<"\n", "x">>,
      <<"x", "\n", "\n", "x">>, <<"-", " ", "x", "\n", "-", " ", "x">>,
      <<"x", " ", "#", "x">>, <<"#", " ", "x">>, <<"x", " ", "Prediction">>,
      <<"x", "\n", "#", "#", "#", " ", "x", "\n", "x">>,
      <<"#", "#", "#", " ", "x", "\n", "x">>,
      <<" ">>, <<"\n">> }

\* Responses without any heading of the template
OtherResponses ==
    { <<>>, <<"x">>, <<"x", "\n", "x">>, <<"#", " ", "x", "\n", "x">>,
      <<"#", "#", " ", "x", "\n", "x">>, <<"Game Overview", "\n", "x">>,
      <<"Prediction", " ", "x">> }

RECURSIVE sectionsOf(_, _)
sectionsOf(texts, h) ==
    IF h > Len(TemplateHeadings) THEN <<>>
    ELSE TemplateHeadings[h] \o <<"\n">> \o texts[h] \o <<"\n", "\n">>
             \o sectionsOf(texts, h + 1)

\* A response with all headings of the template in order, each followed by
\* its text
templateResponse(texts) == sectionsOf(texts, 1)

\* The texts of a response in which section h has the given text and every
\* other section plain text
textsWith(h, text) == [s \in HeadingIds |-> IF s = h THEN text ELSE <<"x">>]

\* extractStructuredSections is called on a response that follows the template
ExtractTemplateSections(h, text) ==
    /\ UNCHANGED <<now, mcpVars, mlbVars, orchVars, parserVars, llmVars>>
    /\ fcall' = [op |-> "extractStructuredSections", shape |-> "template",
                 texts |-> textsWith(h, text),
                 analysis |-> templateResponse(textsWith(h, text))]
    /\ freturn' = Gives(extractStructuredSections(templateResponse(textsWith(h, text))))

\* extractStructuredSections is called on one heading of the template and the
\* line after it
ExtractOneSection(h) ==
    /\ UNCHANGED <<now, mcpVars, mlbVars, orchVars, parserVars, llmVars>>
    /\ fcall' = [op |-> "extractStructuredSections", shape |-> "heading",
                 texts |-> textsWith(h, <<"x">>),
                 analysis |-> TemplateHeadings[h] \o <<"\n", "x">>]
    /\ freturn' = Gives(extractStructuredSections(TemplateHeadings[h] \o <<"\n", "x">>))

\* extractStructuredSections is called on a response without the headings
ExtractOtherSections(response) ==
    /\ UNCHANGED <<now, mcpVars, mlbVars, orchVars, parserVars, llmVars>>
    /\ fcall' = [op |-> "extractStructuredSections", shape |-> "other",
                 texts |-> textsWith(1, <<"x">>), analysis |-> response]
    /\ freturn' = Gives(extractStructuredSections(response))

SectionsNext ==
    \/ \E h \in HeadingIds, text \in SectionTexts : ExtractTemplateSections(h, text)
    \/ \E h \in HeadingIds : ExtractOneSection(h)
    \/ \E response \in OtherResponses : ExtractOtherSections(response)

\* ---------------------------------------------------------------------------
\* ResponseParser.extractPlayerReason.  A context is given by the words in it.
\* ---------------------------------------------------------------------------

\* The keyword tests in the order of the source, with the tag each pushes
ReasonTests ==
    << [keyword |-> "matchup", tag |-> "favorable matchup"],
       [keyword |-> "hot", tag |-> "hot streak"],
       [keyword |-> "struggle", tag |-> "struggling recently"],
       [keyword |-> "power", tag |-> "power threat"],
       [keyword |-> "speed", tag |-> "speed factor"],
       [keyword |-> "clutch", tag |-> "clutch performer"] >>

\* Words of a context, and context.toLowerCase() word by word
toLowerCase ==
    [Matchup |-> "matchup", hot |-> "hot", shot |-> "shot", struggles |-> "struggles",
     POWER |-> "power", speed |-> "speed", clutch |-> "clutch", hits |-> "hits"]
ContextWords == DOMAIN toLowerCase
Contexts == SUBSET ContextWords

\* `word.includes(keyword)` on the lower-case words
includes ==
    [matchup |-> {"matchup"}, hot |-> {"hot"}, shot |-> {"hot"},
     struggles |-> {"struggle"}, power |-> {"power"}, speed |-> {"speed"},
     clutch |-> {"clutch"}, hits |-> {}]

\* `context.toLowerCase().includes(keyword)`
occursIn(keyword, context) ==
    \E word \in context : keyword \in includes[toLowerCase[word]]

\* The tags pushed by tests 1..n, in order
RECURSIVE reasonsUpTo(_, _)
reasonsUpTo(context, n) ==
    IF n = 0 THEN <<>>
    ELSE IF occursIn(ReasonTests[n].keyword, context)
         THEN Append(reasonsUpTo(context, n - 1), ReasonTests[n].tag)
         ELSE reasonsUpTo(context, n - 1)

\* extractPlayerReason returning after the first test that succeeds
extractPlayerReason_FirstOnly(context) ==
    IF reasonsUpTo(context, Len(ReasonTests)) = <<>> THEN <<"key player">>
    ELSE <<Head(reasonsUpTo(context, Len(ReasonTests)))>>

\* extractPlayerReason: `reasons.join(', ')`, given as the tags joined, or
\* 'key player'
extractPlayerReason(context) ==
    IF reasonsUpTo(context, Len(ReasonTests)) = <<>> THEN <<"key player">>
    ELSE reasonsUpTo(context, Len(ReasonTests))

\* extractPlayerReason(context) is called
ExtractPlayerReason(context) ==
    /\ UNCHANGED <<now, mcpVars, mlbVars, orchVars, parserVars, llmVars>>
    /\ fcall' = [op |-> "extractPlayerReason", context |-> context]
    /\ freturn' = Gives(extractPlayerReason(context))

SpotlightNext == \E context \in Contexts : ExtractPlayerReason(context)

\* ---------------------------------------------------------------------------
\* Specifications
\* ---------------------------------------------------------------------------
\* McpClient
InitAnalyzer == McpInit /\ MlbInit /\ OrchInit /\ enableCaching
                    /\ ParserInit /\ AnalyzerInit /\ PureInit
LibInit == ParserInit /\ AnalyzerInit /\ PureInit /\ provider = "anthropic"
Init == McpInit /\ MlbInit /\ OrchInit /\ LibInit /\ enableCaching
Next == McpNext
Spec == Init /\ [][Next]_vars

\* MLBAPIClient
SpecMlb == Init /\ [][MlbNext]_vars

\* GiantsIntelligentMCPServer, with caching enabled or disabled
InitOrch == McpInit /\ MlbInit /\ OrchInit /\ LibInit
SpecOrch == InitOrch /\ [][OrchNext]_vars

\* ResponseParser
SpecParser == Init /\ [][ParserNext]_vars

\* LLMAnalyzer, with either provider
SpecAnalyzer == InitAnalyzer /\ [][AnalyzerNext]_vars

\* DataFormatter
SpecFormatter == Init /\ [][FormatterNext]_vars
SpecSections == Init /\ [][SectionsNext]_vars
SpecSpotlight == Init /\ [][SpotlightNext]_vars

\* One caller of getGiantsGamePreview making one request after the other.
\* Every awaited promise settles: the requests of MLBAPIClient are ended by
\* their abort timer at the latest, and the LLM request resolves or rejects.
SoloNext == PreviewInvoked("p1") \/ PreviewSettles("p1") \/ PreviewTick
SpecSolo == InitOrch /\ [][SoloNext]_vars /\ WF_vars(PreviewSettles("p1"))

\* ---------------------------------------------------------------------------
\* Properties of McpClient
\* ---------------------------------------------------------------------------

\* A call of caller c completes in this step
Completes(c) == result[c] = "pending" /\ result'[c] # "pending"

\* A call is rejected by the breaker in this step: a failure is recorded
\* although no caller leaves its retry loop
RejectionStep == circuitBreaker'.failures = circuitBreaker.failures + 1 /\ pc' = pc

\* C1: starting from a closed breaker with zero failures, the breaker enters
\* open exactly when the number of consecutive failed calls (retries
\* exhausted, no successful call in between) reaches circuitBreakerThreshold:
\* it is closed below the threshold, open at it, and a success restarts the
\* count from zero.
C1_OpensAtThreshold ==
    /\ circuitBreaker.state = "closed" /\ consecFailed = 0
    /\ [][ /\ circuitBreaker'.state = "closed" =>
                /\ consecFailed' < circuitBreakerThreshold
                /\ circuitBreaker'.failures = consecFailed'
           /\ (circuitBreaker.state = "closed" /\ circuitBreaker'.state = "open")
                <=> (circuitBreaker.state = "closed"
                     /\ consecFailed' = circuitBreakerThreshold)
           /\ \A c \in Calls : (Completes(c) /\ result'[c] = "resolved") =>
                (consecFailed' = 0 /\ circuitBreaker'.failures = 0)
         ]_vars

C1_Witness ==
    /\ circuitBreaker.state = "open"
    /\ consecFailed = circuitBreakerThreshold
    /\ circuitBreaker.failures = circuitBreakerThreshold
    /\ \E c \in Calls : result[c] = "resolved"

\* The reset window has not elapsed since the last recorded failure
WithinResetWindow == now - circuitBreaker.lastFailureTime <= circuitBreakerResetTime

\* C2: while the breaker is open and the reset window has not elapsed, a call
\* fails with a communication error without invoking callMcpServer: zero
\* network attempts, no retry, no backoff delay.
C2_OpenFailsFast ==
    [][ (circuitBreaker.state = "open" /\ WithinResetWindow) =>
          \A c \in Calls : pc[c] = "idle" =>
             /\ pc'[c] = "idle"
             /\ \/ <<result[c], message[c], netAttempts[c], waited[c]>>'
                     = <<result[c], message[c], netAttempts[c], waited[c]>>
                \/ /\ result'[c] = "McpCommunicationError"
                   /\ message'[c] = "MCP server circuit breaker is open"
                   /\ netAttempts'[c] = 0
                   /\ waited'[c] = <<>>
      ]_vars

C2_Witness ==
    /\ circuitBreaker.state = "open"
    /\ WithinResetWindow
    /\ \E c \in Calls :
          /\ result[c] = "McpCommunicationError"
          /\ message[c] = "MCP server circuit breaker is open"
          /\ netAttempts[c] = 0

\* C3 (as claimed): once the cooldown window has elapsed since the breaker
\* entered open, a call is not rejected, whatever calls were made and
\* rejected while the breaker was open.
C3_AdmittedAfterCooldown ==
    [][ (circuitBreaker.state = "open" /\ now - openedAt > circuitBreakerResetTime)
           => ~RejectionStep ]_vars

\* C4: from half-open the next completed call decides: a success closes the
\* breaker and zeroes the failure counter, a failure reopens it; until then
\* the breaker stays half-open.
C4_HalfOpenDecides ==
    [][ circuitBreaker.state = "half-open" =>
          /\ \A c \in Calls : (Completes(c) /\ result'[c] = "resolved") =>
                (circuitBreaker'.state = "closed" /\ circuitBreaker'.failures = 0)
          /\ \A c \in Calls : (Completes(c) /\ result'[c] # "resolved") =>
                circuitBreaker'.state = "open"
          /\ (\A c \in Calls : ~Completes(c)) => circuitBreaker'.state = "half-open"
      ]_vars

C4_Witness == lastProbe = "reopened" /\ circuitBreaker.state = "open"

C4_WitnessClosed == lastProbe = "closed" /\ circuitBreaker.state = "closed"

\* C5: executeWithRetry makes at most maxRetries attempts, returns on the
\* first successful attempt without further attempts, waits retryDelay * k
\* after the k-th failed attempt for k < maxRetries, does not wait after the
\* last attempt, and when every attempt fails throws the last attempt's error.
C5_RetryPolicy ==
    [][ \A c \in Calls :
          /\ netAttempts'[c] <= maxRetries
          \* a successful attempt ends the call
          /\ (Completes(c) /\ result'[c] = "resolved") =>
                (pc'[c] = "idle" /\ netAttempts'[c] = Len(errs'[c]) + 1)
          \* an attempt is the first of a call or follows the backoff delay
          /\ (pc[c] # "attempt" /\ pc'[c] = "attempt") =>
                \/ pc[c] = "idle" /\ netAttempts'[c] = 1
                \/ /\ pc[c] = "delay" /\ result[c] = "pending"
                   /\ Len(errs[c]) < maxRetries
                   /\ now = failedAt[c] + retryDelay * Len(errs[c])
                   /\ netAttempts'[c] = netAttempts[c] + 1
          \* a failed attempt is followed by a wait, or by the throw if it was the last
          /\ Len(errs'[c]) = Len(errs[c]) + 1 =>
                IF Len(errs'[c]) < maxRetries
                THEN pc'[c] = "delay" /\ result'[c] = "pending"
                ELSE /\ pc'[c] = "idle" /\ now' = now
                     /\ result'[c] = "McpCommunicationError"
                     /\ message'[c] = errs'[c][maxRetries]
      ]_vars

C5_Witness ==
    \E c \in Calls :
       /\ result[c] = "McpCommunicationError"
       /\ netAttempts[c] = maxRetries
       /\ Len(errs[c]) = maxRetries
       /\ errs[c][1] # errs[c][maxRetries]
       /\ message[c] = errs[c][maxRetries]
       /\ waited[c] = [k \in 1..(maxRetries - 1) |-> retryDelay * k]

\* ---------------------------------------------------------------------------
\* Properties of MLBAPIClient
\* ---------------------------------------------------------------------------

\* Caller r starts a makeRequest call in this step
Starts(r) ==
    /\ rpc[r] = "idle"
    /\ \/ rpc'[r] = "fetching"
       \/ <<rkey[r], rresult[r], rnet[r]>>' # <<rkey[r], rresult[r], rnet[r]>>

\* The makeRequest call of caller r settles after a network call in this step
Ends(r) == rpc[r] = "fetching" /\ rpc'[r] = "idle"

EntryAge(u) == now - cache[u].timestamp

\* A request made less than cacheTimeout after the entry was stored returns
\* the cached data without a network call and without touching the cache
ServedFromCache(r) ==
    LET u == rkey'[r] IN
    (Starts(r) /\ cache[u] # NoEntry /\ EntryAge(u) < cacheTimeout) =>
        /\ rpc'[r] = "idle"
        /\ rresult'[r] = Returned(cache[u].data)
        /\ rnet'[r] = 0
        /\ cache' = cache

\* A request made once the entry has expired issues one network call
RefetchedOnExpiry(r) ==
    LET u == rkey'[r] IN
    (Starts(r) /\ cache[u] # NoEntry /\ EntryAge(u) >= cacheTimeout) =>
        /\ rpc'[r] = "fetching"
        /\ rnet'[r] = 1
        /\ cache' = cache

\* C6 (as claimed): a request within cacheTimeout of the store is served from
\* the cache with zero network calls; the first request after expiry issues
\* exactly one network call and replaces the entry's data and timestamp.
C6_CacheTtl ==
    [][ \A r \in Reqs :
          /\ ServedFromCache(r)
          /\ RefetchedOnExpiry(r)
          /\ (Ends(r) /\ rwhy[r] = "expired") =>
                /\ rnet'[r] = 1
                /\ cache'[rkey[r]].timestamp = now
                /\ cache'[rkey[r]].data = Body(now)
      ]_vars

\* C6 (amended): as C6, but the entry is replaced only when the network call
\* succeeds; when it fails the call throws and the expired entry stays as it was.
C6_CacheTtlOnSuccess ==
    [][ \A r \in Reqs :
          /\ ServedFromCache(r)
          /\ RefetchedOnExpiry(r)
          /\ (Ends(r) /\ rwhy[r] = "expired") =>
                /\ rnet'[r] = 1
                /\ IF rupstream'[r] = "ok"
                   THEN /\ rresult'[r] = Returned(Body(now))
                        /\ cache' = [cache EXCEPT ![rkey[r]] =
                                        [data |-> Body(now), timestamp |-> now]]
                   ELSE /\ rresult'[r].kind = "throw"
                        /\ cache' = cache
      ]_vars

C6_Witness ==
    \E r \in Reqs :
       /\ rpc[r] = "idle" /\ rwhy[r] = "expired" /\ rnet[r] = 1
       /\ rresult[r] = Returned(Body(now))
       /\ cache[rkey[r]] = [data |-> Body(now), timestamp |-> now]
       /\ \E q \in Reqs \ {r} :
             rkey[q] = rkey[r] /\ rnet[q] = 0 /\ rresult[q].kind = "data"
                /\ rresult[q].body # Body(now)

\* C7 (as claimed): two concurrent requests for the same cache key never both
\* miss and both perform the external call.
C7_NoDoubleMiss ==
    \A r1, r2 \in Reqs :
       (r1 # r2 /\ rpc[r1] = "fetching" /\ rpc[r2] = "fetching") => rkey[r1] # rkey[r2]

UpstreamFailures == {"timeout", "network-error", "not-ok"}

\* C8 (as claimed): the sports-data fetch never throws on an upstream failure;
\* on a timeout, a network error and a non-OK status it returns null.
C8_NeverThrows ==
    /\ \A f \in Fetchers : fupstream[f] \in UpstreamFailures => fresult[f] = ReturnedNull
    /\ \A r \in Reqs : rupstream[r] \in UpstreamFailures => rresult[r] = ReturnedNull

\* C8 (amended): fetch (part_001) returns null on each of the three upstream
\* failures and never throws; makeRequest (mlb-api.js) throws on each of
\* them, the timeout as 'MLB API request timeout'.
C8_FetchNullMakeRequestThrows ==
    /\ \A f \in Fetchers :
          /\ fresult[f].kind # "throw"
          /\ fupstream[f] \in UpstreamFailures => fresult[f] = ReturnedNull
    /\ \A r \in Reqs :
          /\ rupstream[r] \in UpstreamFailures => rresult[r].kind = "throw"
          /\ rupstream[r] = "timeout" => rresult[r] = Thrown("MLB API request timeout")

C8_Witness ==
    /\ \E f \in Fetchers : fupstream[f] = "timeout" /\ fresult[f] = ReturnedNull
    /\ \E r \in Reqs : rupstream[r] = "timeout" /\ rresult[r].kind = "throw"

\* The makeRequest call of caller r settles by a failure of the upstream
Fails(r) == Ends(r) /\ rupstream'[r] \in UpstreamFailures

\* C27: a makeRequest call that fails (timeout, network error or non-OK status)
\* leaves the cache map as it was, and it throws: it is not answered from the
\* entry of its URL, however old, after its one network call.
C27_FailureLeavesCache ==
    [][ \A r \in Reqs :
          Fails(r) =>
             /\ cache' = cache
             /\ rresult'[r].kind = "throw"
             /\ rnet'[r] = 1
      ]_vars

\* A call failed while the expired entry of its URL is still in the cache
C27_Witness ==
    \E r \in Reqs :
       /\ rpc[r] = "idle" /\ rupstream[r] \in UpstreamFailures
       /\ rwhy[r] = "expired" /\ rresult[r].kind = "throw"
       /\ cache[rkey[r]] # NoEntry
       /\ EntryAge(rkey[r]) >= cacheTimeout

\* ---------------------------------------------------------------------------
\* Properties of GiantsIntelligentMCPServer.getGiantsGamePreview
\* ---------------------------------------------------------------------------

\* Caller q starts a getGiantsGamePreview request in this step
PreviewStarts(q) ==
    /\ opc[q] = "idle"
    /\ \/ opc'[q] # "idle"
       \/ <<odate[q], ooptions[q], oresult[q], otrace[q]>>'
             # <<odate[q], ooptions[q], oresult[q], otrace[q]>>

\* The orchestrator-side case of C7 (as claimed): two concurrent requests
\* with the same cache key never both miss and both request a completion.
C7_NoDoubleCompletion ==
    \A q1, q2 \in Previews :
       (q1 # q2 /\ opc[q1] = "llm" /\ opc[q2] = "llm" /\ enableCaching) =>
          previewCacheKey(odate[q1], ooptions[q1]) # previewCacheKey(odate[q2], ooptions[q2])

\* C9: with caching enabled, a request whose key (date, options) has an entry
\* younger than the 30-minute TTL returns that entry's result with fromCache
\* true added, performs no fetch, no LLM request and no parse, and leaves the
\* stored entry unmodified.
C9_CacheHitFrame ==
    [][ \A q \in Previews :
          LET entry == analysisCache[<<"game-preview", odate'[q], ooptions'[q]>>] IN
          (/\ PreviewStarts(q)
           /\ enableCaching
           /\ entry # NoAnalysis
           /\ now - entry.timestamp < previewCacheTimeout) =>
             /\ opc'[q] = "idle"
             /\ oresult'[q] = [entry.data EXCEPT !.fromCache = TRUE]
             /\ otrace'[q] = <<>>
             /\ analysisCache' = analysisCache
      ]_vars

C9_Witness ==
    \E q \in Previews :
       LET entry == analysisCache[<<"game-preview", odate[q], ooptions[q]>>] IN
       /\ opc[q] = "idle" /\ otrace[q] = <<>>
       /\ oresult[q].fromCache /\ oresult[q].success
       /\ entry # NoAnalysis
       /\ oresult[q] = [entry.data EXCEPT !.fromCache = TRUE]
       /\ entry.timestamp < now
       /\ \E k \in PreviewKeys : analysisCache[k] = NoAnalysis

\* C10: when the schedule response has an empty dates array, or no game in
\* it, getGiantsGamePreview returns {success:false, error:"No Giants game
\* found for the specified date", date}, makes none of the follow-up fetches
\* and makes no LLM call.
C10_NoGameFound ==
    \A q \in Previews :
       (opc[q] = "idle" /\ oschedule[q] \in {"empty-dates", "empty-games"}) =>
          /\ oresult[q] = [success |-> FALSE,
                           error |-> "No Giants game found for the specified date",
                           date |-> odate[q], generated |-> -1, fromCache |-> FALSE]
          /\ otrace[q] = <<"schedule">>

C10_Witness ==
    /\ \E q \in Previews :
          /\ opc[q] = "idle" /\ oschedule[q] = "empty-dates"
          /\ oresult[q].error = "No Giants game found for the specified date"
    /\ \E q \in Previews :
          /\ opc[q] = "idle" /\ oschedule[q] = "empty-games"
          /\ otrace[q] = <<"schedule">>

\* ---------------------------------------------------------------------------
\* Properties of the getGiantsGamePreview pipeline
\* ---------------------------------------------------------------------------

InTrace(q, stage) == \E i \in DOMAIN otrace[q] : otrace[q][i] = stage

\* What oabort holds when the request was ended by an error of the fetch stage
FetchAborts ==
    {"schedule", "getTeamSchedule", "getGameFeed", "getPlayerStats"}
        \cup MandatoryFetches \cup OptionalFetches

\* Every await of fetchComprehensiveGameData on the path of a found game
FetchAwaits == {"schedule", "mandatory", "gameFeed", "weather", "injuries"}

\* C11: within a request that misses the cache the stages are started in the
\* order fetch, format, LLM completion, parse, store, none of them twice (so the
\* completion is requested at most once); a stage is started only when the
\* stage before it was started and did not fail, the parser only once the
\* completion is no longer awaited, and never after a failed fetch or a failed
\* completion.
C11_StagesInOrder ==
    \A q \in Previews :
        /\ \A i, j \in DOMAIN otrace[q] :
               i < j => StageRank[otrace[q][i]] < StageRank[otrace[q][j]]
        /\ InTrace(q, "format") =>
               /\ \A s \in FetchAwaits : InTrace(q, s)
               /\ oabort[q] \notin FetchAborts
        /\ InTrace(q, "llm") => InTrace(q, "format") /\ oabort[q] # "format"
        /\ InTrace(q, "parse") =>
               InTrace(q, "llm") /\ oabort[q] # "llm" /\ opc[q] # "llm"
        /\ InTrace(q, "store") => InTrace(q, "parse") /\ oabort[q] # "parse"
        /\ oabort[q] \in FetchAborts \cup {"llm"} => ~InTrace(q, "parse")

\* A request has gone through all five stages and returned
C11_Witness ==
    \E q \in Previews :
        /\ opc[q] = "idle" /\ oresult[q].success
        /\ Len(otrace[q]) > 4
        /\ SubSeq(otrace[q], Len(otrace[q]) - 3, Len(otrace[q]))
               = <<"format", "llm", "parse", "store">>

\* What oabort holds when the schedule fetch or a fetch of the parallel set
\* rejected
MandatoryAborts == {"getTeamSchedule"} \cup MandatoryFetches

\* The partial-failure policy with fieldValues the values a field whose fetch
\* failed may have in the bundle
PartialFailurePolicy(fieldValues) ==
    \A q \in Previews :
        /\ oabort[q] \notin OptionalFetches
        /\ ofailed[q] # {} =>
               /\ opc[q] \in {"injuries", "llm"}
               /\ oraw[q].gameFound
               /\ \A f \in ofailed[q] : oraw[q][f] \in fieldValues
        /\ \A f \in ofailed[q] \ {"weather"} : oraw[q][f] = "absent"
        /\ oabort[q] \in MandatoryAborts =>
               /\ opc[q] = "idle"
               /\ ~oresult[q].success
               /\ ~InTrace(q, "llm")

\* C12 as stated: a failed weather or injury-report fetch never ends the
\* request, the bundle has gameFound true and the field of the failed fetch is
\* absent; a failed schedule fetch or mandatory fetch ends it with
\* success false and no LLM request.
C12_PartialFailurePolicy == PartialFailurePolicy({"absent"})

\* C12 amended: as above, but the field of a failed weather fetch is absent or
\* null (getGameWeather catches the error of its feed request and resolves to
\* null, which is assigned to data.weather).
C12_FailedFieldAbsentOrNull == PartialFailurePolicy({"absent", "null"})

\* A request goes on to the LLM after its weather fetch and its second injury
\* fetch failed
C12_Witness ==
    \E q \in Previews :
        /\ opc[q] = "llm"
        /\ ofailed[q] = {"weather", "opponentInjuries"}
        /\ oraw[q].weather = "null" /\ oraw[q].gameFound

C14_ParseOfTheTextPassed == preturned.rawAnalysis = pinput

\* ---------------------------------------------------------------------------
\* Properties of LLMAnalyzer
\* ---------------------------------------------------------------------------

\* The usage counters, with costCounted the cost that totalCost is to equal
UsageCounters(costCounted) ==
    /\ requestCount = lstarted
    /\ totalCost = costCounted
    /\ lstats # NoStats =>
           lstats.averageCostPerRequest =
               IF lstats.requestCount = 0 THEN Zero
               ELSE Quotient(lstats.totalCost, lstats.requestCount)
    /\ llast = "resetUsageStats" => requestCount = 0 /\ totalCost = 0

\* C15 as stated: requestCount is the number of makeRequest calls started since
\* construction or the last reset, totalCost the sum of the estimated costs of
\* the calls that completed successfully since then, getUsageStats reports
\* their quotient (0 when requestCount is 0) and resetUsageStats zeroes both.
C15_UsageCounters == UsageCounters(lreturned)

\* C15 amended: totalCost is the sum of the estimated costs of the provider
\* responses received since then, the one of a call that threw while reading
\* the text of its response included.
C15_CostOfProviderResponses == UsageCounters(lbilled)

\* A call was billed and threw; the statistics were read before any request
C15_Witness ==
    /\ llast = "threw"
    /\ lreturned < lbilled
    /\ totalCost = lbilled
    /\ requestCount > 0
    /\ lstats # NoStats /\ lstats.requestCount = 0

\* C28: in every reachable state of an LLMAnalyzer, a reset while a completion
\* request is in flight included, requestCount = 0 implies totalCost = 0, and
\* getUsageStats never reports a positive totalCost with zero requests.
C28_NoCostWithoutRequests ==
    /\ requestCount = 0 => totalCost = 0
    /\ lstats # NoStats => (lstats.requestCount = 0 => lstats.totalCost = 0)

\* ---------------------------------------------------------------------------
\* Properties of DataFormatter
\* ---------------------------------------------------------------------------

\* The malformed and partial inputs: null, no stats array, an empty stats
\* array, a stats entry whose splits array is empty
MalformedTeamStats == {TsNull, TsNoStats, TsEmptyStats, TsEmptySplits}

\* C16: on every malformed or partial team-stats input extractKeyTeamStats
\* returns {available:false} and does not throw.
C16_DegradesToUnavailable ==
    (fcall.op = "extractKeyTeamStats" /\ fcall.teamStats \in MalformedTeamStats)
        => freturn = Gives(Unavailable)

\* The payload of a call of formatGameData and the bundle it was made from
Payload == freturn.value
Bundle == fcall.rawData

\* C17: formatGameData returns for every raw bundle of a found game; the
\* sub-blocks made from team stats, recent games, probable pitchers, pitcher
\* stats or head-to-head dates that are missing are {available:false}, none
\* of them an object without the marker.
C17_MissingDataIsMarked ==
    fcall.op = "formatGameData" =>
        /\ freturn.kind = "returned"
        /\ Bundle.giantsStats = TsNull => Payload.teamStats.giants = "unavailable"
        /\ Bundle.opponentStats = TsNull =>
               /\ Payload.teamStats.opponent = "unavailable"
               /\ Payload.teamStats.comparison = "unavailable"
        /\ Bundle.giantsRecentGames # "games" =>
               Payload.recentPerformance.giants = "unavailable"
        /\ Bundle.opponentRecentGames # "games" =>
               Payload.recentPerformance.opponent = "unavailable"
        /\ ~Bundle.probablePitchers.present =>
               Payload.pitchingMatchup.block = "unavailable"
        /\ (Bundle.probablePitchers.present
                /\ ~(Bundle.homePitcherStats /\ Bundle.awayPitcherStats)) =>
               Payload.pitchingMatchup.comparison = "unavailable"
        /\ (Bundle.probablePitchers.present /\ ~Bundle.probablePitchers.home
                /\ Bundle.isHomeGame) =>
               Payload.pitchingMatchup.giants = "unavailable"
        /\ Bundle.headToHead = "no-dates" => Payload.headToHead = "unavailable"

\* |a - b| is under 5% of the average of a and b
UnderFivePercent(a, b) == abs(a - b) * 200 < 5 * (a + b)

\* C18: calculateAdvantage(a, b) on non-negative numbers, 0 included, is
\* 'Even' when |a-b| is under 5% of their average and otherwise names the side
\* with the larger value; the swapped call names the other side, and is
\* 'Even' exactly when the call is.
C18_AdvantageIsSymmetric ==
    fcall.op = "calculateAdvantage" =>
        /\ UnderFivePercent(fcall.value1, fcall.value2) => freturn.value = "Even"
        /\ (~UnderFivePercent(fcall.value1, fcall.value2)
                /\ fcall.value1 > fcall.value2) => freturn.value = "Giants"
        /\ (~UnderFivePercent(fcall.value1, fcall.value2)
                /\ fcall.value1 < fcall.value2) => freturn.value = "Opponent"
        /\ freturn.value = "Giants" <=> freturn.swapped = "Opponent"
        /\ freturn.value = "Even" <=> freturn.swapped = "Even"

\* The sections extractStructuredSections returned
Recovered == DOMAIN freturn.value

\* C19: every heading of the output template is recognised by exactly one
\* section pattern; a response with all headings of the template in order,
\* each followed by text that is not blank, gives one entry per heading, each
\* with non-empty content; a response with none of the headings gives the
\* empty mapping; no call throws.
C19_TemplateSectionsRecovered ==
    fcall.op = "extractStructuredSections" =>
        /\ freturn.kind = "returned"
        /\ fcall.shape = "heading" => Cardinality(Recovered) = 1
        /\ (fcall.shape = "template"
                /\ \A h \in HeadingIds : trim(fcall.texts[h]) # <<>>) =>
               /\ Recovered = SectionNames
               /\ \A name \in Recovered : freturn.value[name] # <<>>
        /\ fcall.shape = "other" => Recovered = {}

\* The call invokes callMcpServer in this step: its first attempt or the next
\* attempt of its retry loop
StartsAttempt(c) == pc[c] # "attempt" /\ pc'[c] = "attempt"

\* The breaker is open and its reset window has not elapsed
BreakerBlocks ==
    /\ circuitBreaker.state = "open"
    /\ now - circuitBreaker.lastFailureTime <= circuitBreakerResetTime

\* C20: no call starts a network attempt while the breaker is open and the
\* reset window has not elapsed, a call inside its retry loop included.
C20_NoAttemptWhileOpen ==
    [][\A c \in Calls : StartsAttempt(c) => ~BreakerBlocks]_vars

\* The retry loop of call c starts its next attempt in this step
StartsRetry(c) == pc[c] = "delay" /\ pc'[c] = "attempt"

\* The callMcpServer operation of the previous attempt of call c, abandoned
\* when the withTimeout deadline rejected the attempt, has not settled yet
PreviousOperationOutstanding(c) ==
    /\ lastError[c] = "TimeoutError"
    /\ \E due \in orphans[c] : due > failedAt[c]

\* C29: a retry attempt begins only after the operation of the previous
\* attempt has settled, also when that attempt ended by the withTimeout
\* deadline, so that one call never has two operations outstanding.
C29_RetryAfterPreviousSettled ==
    [][\A c \in Calls : StartsRetry(c) => ~PreviousOperationOutstanding(c)]_vars

\* The breaker is half-open and the call that found it so is still in flight
ProbeInFlight ==
    /\ circuitBreaker.state = "half-open"
    /\ \E d \in Calls : pc[d] # "idle"

\* Call c passes the breaker and makes its first network attempt in this step
PassesBreaker(c) == pc[c] = "idle" /\ pc'[c] = "attempt"

\* C30: while the breaker is half-open one call at most is admitted as a
\* probe; a call arriving before the probe has completed is rejected without
\* a network attempt.
C30_SingleProbe ==
    [][ProbeInFlight => \A c \in Calls : ~PassesBreaker(c)]_vars

\* What a team did in its games, whichever side of the field it played on
RECURSIVE ownTally(_, _, _)
ownTally(games, team, n) ==
    IF n = 0 THEN [wins |-> 0, runs |-> 0, runsAllowed |-> 0]
    ELSE LET rest == ownTally(games, team, n - 1)
         IN  [wins |-> rest.wins + (IF ownScore(games[n], team) > otherScore(games[n], team)
                                    THEN 1 ELSE 0),
              runs |-> rest.runs + ownScore(games[n], team),
              runsAllowed |-> rest.runsAllowed + otherScore(games[n], team)]

ReportsOwnGames(record, games, team) ==
    /\ record.wins = ownTally(games, team, Len(games)).wins
    /\ record.runsPerGame.num = ownTally(games, team, Len(games)).runs
    /\ record.runsAllowedPerGame.num = ownTally(games, team, Len(games)).runsAllowed

\* C21: formatRecentPerformance reports for each side the wins, runs scored
\* and runs allowed of that side's own team, at home and away.
C21_OwnTeamRecord ==
    fcall.op = "formatRecentPerformance" =>
        /\ ReportsOwnGames(freturn.value.giants, fcall.giantsGames, giantsTeamId)
        /\ ReportsOwnGames(freturn.value.opponent, fcall.opponentGames, OpponentTeamId)

\* The optional data of a bundle is present and not empty
HasInjuries == "injuries" \in {Bundle.giantsInjuries, Bundle.opponentInjuries}

\* C22: formatGameData includes the weather, injuries and headToHead block
\* only when the option flag allows it and the raw data is present and not
\* empty: no block with its flag false, no injuries block when the injury
\* reports of both teams are empty.
C22_OptionalBlocks ==
    (fcall.op = "formatGameData" /\ freturn.kind = "returned") =>
        /\ Payload.weather # "absent" =>
               fcall.options.includeWeather # "false" /\ Bundle.weather = "data"
        /\ Payload.injuries.included =>
               fcall.options.includeInjuries # "false" /\ HasInjuries
        /\ Payload.headToHead # "absent" => Bundle.headToHead # "missing"

\* The tags of the tests whose keyword occurs in the context of the call
MatchingTags ==
    SelectSeq([n \in DOMAIN ReasonTests |-> ReasonTests[n].tag],
              LAMBDA tag : \E n \in DOMAIN ReasonTests :
                               /\ ReasonTests[n].tag = tag
                               /\ occursIn(ReasonTests[n].keyword, fcall.context))

\* C23 as stated: the reason is exactly one tag, that of the first test whose
\* keyword occurs in the context, or 'key player' when none occurs.
C23_FirstMatchWins ==
    fcall.op = "extractPlayerReason" =>
        freturn.value = IF MatchingTags = <<>> THEN <<"key player">>
                        ELSE <<Head(MatchingTags)>>

\* C23: the reason joins the tags of all tests whose keyword occurs in the
\* context, in the order of the tests, and is 'key player' when none occurs.
C23_AllMatchesJoined ==
    fcall.op = "extractPlayerReason" =>
        freturn.value = IF MatchingTags = <<>> THEN <<"key player">>
                        ELSE MatchingTags

C23_Witness ==
    /\ fcall.op = "extractPlayerReason"
    /\ Len(MatchingTags) >= 2
    /\ freturn.value = MatchingTags

\* C24: in every state of McpClient the breaker is closed only with fewer
\* failures than the threshold, and open or half-open only with at least as
\* many.
C24_StateMatchesFailures ==
    /\ circuitBreaker.state = "closed" =>
           circuitBreaker.failures < circuitBreakerThreshold
    /\ circuitBreaker.state \in {"open", "half-open"} =>
           circuitBreaker.failures >= circuitBreakerThreshold

\* A probe is in flight in half-open after a rejection was counted while the
\* breaker was open, and another call is in its retry loop
C24_Witness ==
    /\ circuitBreaker.state = "half-open"
    /\ circuitBreaker.failures > circuitBreakerThreshold
    /\ \A c \in Calls : pc[c] # "idle"

\* C25: a call rejected because the breaker is open leaves failures,
\* lastFailureTime and state of the breaker as they were.
C25_RejectionLeavesBreaker ==
    [][\A c \in Calls : CallRejected(c) => circuitBreaker' = circuitBreaker]_vars

\* The last request of q ended with a failure result
FailedRequest(q) ==
    opc[q] = "idle" /\ ~oresult[q].success /\ oresult[q].error # "pending"

\* C26: every entry of analysisCache is a success result, stored by the step
\* that completes a fetch, format, LLM, parse run and returned by it; a
\* request that ends in 'no game found' or an error stores nothing, and the
\* next call with its key is computed again.
C26_OnlySuccessesCached ==
    /\ [](\A k \in PreviewKeys :
              analysisCache[k] # NoAnalysis =>
                  (analysisCache[k].data.success /\ ~analysisCache[k].data.fromCache))
    /\ [][\A q \in Previews :
              /\ (opc[q] # "idle" /\ opc'[q] = "idle" /\ ~oresult'[q].success) =>
                     analysisCache' = analysisCache
              /\ \A k \in PreviewKeys :
                     (opc[q] # "idle" /\ analysisCache'[k] # analysisCache[k]) =>
                         /\ k = previewCacheKey(odate[q], ooptions[q])
                         /\ analysisCache'[k].data = oresult'[q]
                         /\ Len(otrace'[q]) > 4
                         /\ SubSeq(otrace'[q], Len(otrace'[q]) - 3, Len(otrace'[q]))
                                = <<"format", "llm", "parse", "store">>
              /\ (FailedRequest(q) /\ oresult'[q] # oresult[q]
                      /\ odate'[q] = odate[q] /\ ooptions'[q] = ooptions[q]) =>
                     opc'[q] = "schedule"
       ]_vars

\* A request for a key has failed with nothing stored under it, while the
\* cache holds the success of an earlier request for another key
C26_Witness ==
    \E q \in Previews :
        /\ enableCaching
        /\ FailedRequest(q)
        /\ analysisCache[previewCacheKey(odate[q], ooptions[q])] = NoAnalysis
        /\ \E k \in PreviewKeys : analysisCache[k] # NoAnalysis

====
